---- MODULE Spec2Model ----
(***************************************************************************)
(* A model of the evidence scanning and scoring engine of                  *)
(* academic-evidence-finder: scripts/scan.py (the single-pass driver) and  *)
(* scripts/scan_optimized.py (the two-pass driver).                        *)
(*                                                                         *)
(* Text is a sequence of one-character strings.  A regular expression of   *)
(* the rule file is a literal pattern over letters, compiled with          *)
(* re.IGNORECASE; a pattern holding "(" is the model's pattern that        *)
(* re.compile rejects (an unterminated group).                             *)
(***************************************************************************)
EXTENDS Integers, Sequences, FiniteSets, TLC

VARIABLES
    sc_text,      \* score_text: the text argument
    sc_pats,      \* score_text: the compiled pattern list
    sc_per_hit,   \* score_text: per_hit
    sc_cap,       \* score_text: cap
    sc_fn,        \* which scoring function was called ("none" before the call)
    sc_res        \* the (score, hits) pair it returned

score_vars == <<sc_text, sc_pats, sc_per_hit, sc_cap, sc_fn, sc_res>>

VARIABLES
    driver,        \* "single" (scan.py) or "twopass" (scan_optimized.py)
    cfg,           \* the rule document
    path_list,     \* the lines of the --path-list file
    ics_paths,     \* the set of calendar files
    mbox_paths,    \* the set of mailbox files
    categories_to_process,  \* --categories
    pass1_only,    \* --pass1-only
    args,          \* --max-bytes, --modified-since, --modified-until
    now,           \* time.time()
    pc,            \* where the run is
    compiled,      \* the compiled rules
    files_to_scan, \* the files to process
    idx,           \* how many of them have been processed
    rows,          \* the rows appended so far
    stats,         \* the counters of the processing loop
    outputs,       \* the files this run has written
    progress,      \* the last progress snapshot
    progress_log,  \* the progress snapshots of this run, in the order of the calls
    categorized,   \* the Pass 1 buckets
    pass1_json,    \* what pass1_categorized.json holds
    reported,      \* the rows handed to the report writer
    enumerated,    \* the inputs have been enumerated
    run,           \* the number of this run
    prev_reported  \* the rows the earlier run handed to the report writer

input_vars ==
    <<driver, cfg, path_list, ics_paths, mbox_paths, categories_to_process, pass1_only,
      args, now>>

run_vars ==
    <<pc, compiled, files_to_scan, idx, rows, stats, outputs, progress, progress_log,
      categorized, pass1_json, reported, enumerated, run, prev_reported>>

VARIABLES
    w_fn,        \* "walk_files" (scan.py) or "walk_directories" (scan_optimized.py)
    w_roots,     \* include_dirs, in the order they are walked
    w_exclude,   \* exclude_dirs
    w_exts,      \* include_exts
    w_args,      \* --modified-since, --modified-until (day numbers) and --max-bytes
    w_pc,        \* where the walk is
    w_pending,   \* the directories os.walk has still to visit, next first
    w_visited,   \* the directories os.walk has visited
    w_yielded,   \* the paths yielded so far
    w_listing    \* walk_files: the directory whose filenames are gone through and
                 \* the index of the next one; <<>> between two directories

walk_vars ==
    <<w_fn, w_roots, w_exclude, w_exts, w_args, w_pc, w_pending, w_visited, w_yielded,
      w_listing>>

VARIABLES
    cl_file,     \* analyze_file_metadata: the path and what os.stat gave for it
    cl_now,      \* what time.time() reads at the first and at the second call
    cl_recs      \* the records the calls made so far returned

classify_vars == <<cl_file, cl_now, cl_recs>>

VARIABLES
    call_fn,     \* the function that is called
    call_args,   \* its arguments and what it reads of its environment
    call_res     \* what it returned or raised

call_vars == <<call_fn, call_args, call_res>>

VARIABLES
    scanning,              \* EvidenceFinderApp.scanning
    current_scan_process,  \* EvidenceFinderApp.current_scan_process
    scan_thread,           \* EvidenceFinderApp.scan_thread
    threads,               \* the worker threads started so far: where each is in _run_scan
    procs,                 \* the scan subprocesses started so far: alive or not
    ui,                    \* where the UI thread is
    ui_process             \* the subprocess whose poll() or wait(timeout=5) stop_scan is in

app_vars == <<scanning, current_scan_process, scan_thread, threads, procs, ui, ui_process>>

vars == <<score_vars, input_vars, run_vars, walk_vars, classify_vars, call_vars, app_vars>>

----------------------------------------------------------------------------
\* Bounds of the scoring specification.

MaxTextLen == 3

MaxPats == 2

MaxCap == 3

\* how far below 0 the caps go: load_rules takes int(cap_per_file) as it is
MaxNegativeCap == 1

----------------------------------------------------------------------------
\* Characters and strings.

Range(s) == {s[i] : i \in DOMAIN s}

Min(a, b) == IF a <= b THEN a ELSE b

\* str.lower() on one character.
ToLower ==
    [A |-> "a", B |-> "b", C |-> "c", D |-> "d", E |-> "e", F |-> "f",
     G |-> "g", H |-> "h", I |-> "i", J |-> "j", K |-> "k", L |-> "l",
     M |-> "m", N |-> "n", O |-> "o", P |-> "p", Q |-> "q", R |-> "r",
     S |-> "s", T |-> "t", U |-> "u", V |-> "v", W |-> "w", X |-> "x",
     Y |-> "y", Z |-> "z"]

UpperChars == DOMAIN ToLower

Lower(c) == IF c \in UpperChars THEN ToLower[c] ELSE c

\* str.lower()
LowerStr(s) == [i \in 1..Len(s) |-> Lower(s[i])]

\* All sequences over A of length at most n.
SeqsUpTo(A, n) == UNION {[1..k -> A] : k \in 0..n}

----------------------------------------------------------------------------
\* Regular expressions (literal, case-insensitive).

\* re.compile(p, re.IGNORECASE) succeeds.
re_compiles(p) == \A i \in 1..Len(p) : p[i] # "("

\* The compiled pattern matches text at offset pos (0-based).
MatchAt(pat, text, pos) ==
    /\ pos + Len(pat) <= Len(text)
    /\ \A k \in 1..Len(pat) : Lower(text[pos + k]) = Lower(pat[k])

\* pat.finditer(text): the spans (start, end) of the non-overlapping matches,
\* scanning left to right; after an empty match the scan moves on one place.
RECURSIVE finditer_from(_, _, _)
finditer_from(pat, text, pos) ==
    IF pos > Len(text) THEN <<>>
    ELSE IF MatchAt(pat, text, pos)
         THEN <<(<<pos, pos + Len(pat)>>)>> \o
              finditer_from(pat, text, IF Len(pat) = 0 THEN pos + 1 ELSE pos + Len(pat))
         ELSE finditer_from(pat, text, pos + 1)

finditer(pat, text) == finditer_from(pat, text, 0)

\* re.search(pat, text) finds a match.
re_search(pat, text) == \E pos \in 0..Len(text) : MatchAt(pat, text, pos)

----------------------------------------------------------------------------
\* The scoring function.

\* The loop of score_text: hits += len(set(m.span() for m in pat.finditer(text)))
\* for the patterns from index i on.
RECURSIVE count_hits(_, _, _)
count_hits(text, pats, i) ==
    IF i > Len(pats) THEN 0
    ELSE Cardinality(Range(finditer(pats[i], text))) + count_hits(text, pats, i + 1)

\* A plausible slip: the cap is applied to the hit count, before the multiplication.
score_text_cap_first(text, pats, per_hit, cap) ==
    IF text = <<>> THEN [score |-> 0, hits |-> 0]
    ELSE LET hits == count_hits(text, pats, 1)
         IN  [score |-> Min(hits, cap) * per_hit, hits |-> hits]

\* scan.py score_text
score_text(text, pats, per_hit, cap) ==
    IF text = <<>> THEN [score |-> 0, hits |-> 0]
    ELSE LET hits == count_hits(text, pats, 1)
         IN  [score |-> Min(hits * per_hit, cap), hits |-> hits]

\* A plausible slip: the spans of all patterns are collected in one set, so a span
\* matched by two patterns is counted once.
RECURSIVE all_spans(_, _, _)
all_spans(text, pats, i) ==
    IF i > Len(pats) THEN {}
    ELSE Range(finditer(pats[i], text)) \cup all_spans(text, pats, i + 1)

TwoPass_score_text_dedup(text, pats, per_hit, cap) ==
    IF text = <<>> THEN [score |-> 0, hits |-> 0]
    ELSE LET hits == Cardinality(all_spans(text, pats, 1))
         IN  [score |-> Min(hits * per_hit, cap), hits |-> hits]

\* scan_optimized.py TwoPassScanner._score_text
TwoPass_score_text(text, pats, per_hit, cap) ==
    IF text = <<>> THEN [score |-> 0, hits |-> 0]
    ELSE LET hits == count_hits(text, pats, 1)
         IN  [score |-> Min(hits * per_hit, cap), hits |-> hits]

----------------------------------------------------------------------------
\* String order (Python compares str by code point).

Ord ==
    ("\n" :> 10) @@ (" " :> 32) @@ ("(" :> 40) @@ ("-" :> 45) @@ ("." :> 46)
    @@ ("/" :> 47) @@ ("0" :> 48) @@ ("1" :> 49) @@ ("2" :> 50) @@ ("3" :> 51)
    @@ ("4" :> 52) @@ ("5" :> 53) @@ ("6" :> 54) @@ ("7" :> 55) @@ ("8" :> 56)
    @@ ("9" :> 57) @@ ("A" :> 65) @@ ("B" :> 66) @@ ("C" :> 67) @@ ("D" :> 68)
    @@ ("E" :> 69) @@ ("F" :> 70) @@ ("G" :> 71) @@ ("H" :> 72) @@ ("I" :> 73)
    @@ ("J" :> 74) @@ ("K" :> 75) @@ ("L" :> 76) @@ ("M" :> 77) @@ ("N" :> 78)
    @@ ("O" :> 79) @@ ("P" :> 80) @@ ("Q" :> 81) @@ ("R" :> 82) @@ ("S" :> 83)
    @@ ("T" :> 84) @@ ("U" :> 85) @@ ("V" :> 86) @@ ("W" :> 87) @@ ("X" :> 88)
    @@ ("Y" :> 89) @@ ("Z" :> 90) @@ ("\\" :> 92) @@ ("_" :> 95) @@ ("a" :> 97)
    @@ ("b" :> 98) @@ ("c" :> 99) @@ ("d" :> 100) @@ ("e" :> 101) @@ ("f" :> 102)
    @@ ("g" :> 103) @@ ("h" :> 104) @@ ("i" :> 105) @@ ("j" :> 106)
    @@ ("k" :> 107) @@ ("l" :> 108) @@ ("m" :> 109) @@ ("n" :> 110)
    @@ ("o" :> 111) @@ ("p" :> 112) @@ ("q" :> 113) @@ ("r" :> 114)
    @@ ("s" :> 115) @@ ("t" :> 116) @@ ("u" :> 117) @@ ("v" :> 118)
    @@ ("w" :> 119) @@ ("x" :> 120) @@ ("y" :> 121) @@ ("z" :> 122)

\* a < b for Python strings.
StrLess(a, b) ==
    \E k \in 1..(Min(Len(a), Len(b)) + 1) :
        /\ \A j \in 1..(k - 1) : a[j] = b[j]
        /\ \/ k > Len(a) /\ k <= Len(b)
           \/ k <= Len(a) /\ k <= Len(b) /\ Ord[a[k]] < Ord[b[k]]

\* The last index of character c in s, 0 when it does not occur.
LastIndex(s, c) ==
    LET at == {i \in 1..Len(s) : s[i] = c}
    IN  IF at = {} THEN 0 ELSE CHOOSE i \in at : \A j \in at : j <= i

\* os.path.basename
basename(p) == SubSeq(p, LastIndex(p, "/") + 1, Len(p))

\* os.path.splitext(p)[1]: from the last dot of the last path component, unless
\* that component has only dots before it.
splitext_ext(p) ==
    LET sepIndex == LastIndex(p, "/")
        dotIndex == LastIndex(p, ".")
    IN  IF dotIndex > sepIndex /\ \E k \in (sepIndex + 1)..(dotIndex - 1) : p[k] # "."
        THEN SubSeq(p, dotIndex, Len(p))
        ELSE <<>>

\* text.strip() is empty
IsBlank(text) == \A i \in 1..Len(text) : text[i] \in {" ", "\n"}

\* "\n".join(parts)
RECURSIVE join_lines(_)
join_lines(parts) ==
    IF Len(parts) = 0 THEN <<>>
    ELSE IF Len(parts) = 1 THEN parts[1]
    ELSE parts[1] \o <<"\n">> \o join_lines(Tail(parts))

\* The orders in which a set can be iterated.
Orders(S) ==
    {s \in [1..Cardinality(S) -> S] : \A i, j \in DOMAIN s : i # j => s[i] # s[j]}

\* The sum of f over the keys in S.
RECURSIVE SumOver(_, _)
SumOver(f, S) ==
    IF S = {} THEN 0
    ELSE LET k == CHOOSE x \in S : TRUE IN f[k] + SumOver(f, S \ {k})

----------------------------------------------------------------------------
\* Names.

SRC_FILES == <<"f", "i", "l", "e", "s">>

SRC_CALENDAR == <<"c", "a", "l", "e", "n", "d", "a", "r">>

SRC_EMAIL == <<"e", "m", "a", "i", "l">>

Scholarship == <<"S", "c", "h", "o", "l", "a", "r", "s", "h", "i", "p">>

Service == <<"S", "e", "r", "v", "i", "c", "e">>

Research == <<"R", "e", "s", "e", "a", "r", "c", "h">>

Creative == <<"C", "r", "e", "a", "t", "i", "v", "e">>

Committee == <<"C", "o", "m", "m", "i", "t", "t", "e", "e">>

----------------------------------------------------------------------------
\* extractors.py

READERS == {<<".", "t", "x", "t">>, <<".", "p", "d", "f">>, <<".", "d", "o", "c", "x">>, <<".", "p", "p", "t", "x">>}

\* extract_text(path): the reader of the lowercased extension returns the file's
\* text (content); a file with no reader yields the empty string.
extract_text(f) ==
    IF splitext_ext(LowerStr(f.path)) \in READERS THEN f.content ELSE <<>>

----------------------------------------------------------------------------
\* Rule configuration (the parsed YAML document) and its compilation.

\* Some pattern of the "any" lists does not compile: re.compile raises.
compile_raises(categories) ==
    \E i \in 1..Len(categories) :
        /\ categories[i].has_any
        /\ \E j \in 1..Len(categories[i].any) : ~ re_compiles(categories[i].any[j])

\* scan_optimized.py TwoPassScanner._compile_rules
TwoPass_compile_rules(categories) ==
    IF compile_raises(categories)
    THEN [ok |-> FALSE, compiled |-> <<>>]
    ELSE [ok |-> TRUE,
          compiled |-> [i \in 1..Len(categories) |->
                           [cat |-> categories[i].cat, sub |-> categories[i].sub,
                            pats |-> IF categories[i].has_any
                                     THEN categories[i].any ELSE <<>>]]]

\* cat_w.get(cat, 1.0)
category_weight(cat_w, cat) == IF cat \in DOMAIN cat_w THEN cat_w[cat] ELSE 1

\* scan_optimized.py lines 276-278: the points of every keyword that re.search finds
\* (the empty keyword is found in every text).
TwoPass_bonus_sum(bonus, text) ==
    SumOver(bonus, {k \in DOMAIN bonus : re_search(k, text)})

\* str.strip(): without the leading and trailing blanks
RECURSIVE Strip(_)
Strip(s) ==
    IF s = <<>> THEN s
    ELSE IF Head(s) \in {" ", "\n"} THEN Strip(Tail(s))
    ELSE IF s[Len(s)] \in {" ", "\n"} THEN Strip(SubSeq(s, 1, Len(s) - 1))
    ELSE s

\* The first index of character c in s, 0 when it does not occur.
FirstIndex(s, c) ==
    LET at == {i \in 1..Len(s) : s[i] = c}
    IN  IF at = {} THEN 0 ELSE CHOOSE i \in at : \A j \in at : i <= j

Digits == {"0", "1", "2", "3", "4", "5", "6", "7", "8", "9"}

\* The number a string of decimal digits writes.
RECURSIVE DigitsValue(_)
DigitsValue(s) ==
    IF s = <<>> THEN 0 ELSE 10 * DigitsValue(SubSeq(s, 1, Len(s) - 1)) + (Ord[s[Len(s)]] - 48)

\* float(v) for the values of the model: a string of decimal digits is its
\* number; any other string (letters, the empty string) raises ValueError.
parse_float(v) ==
    IF v # <<>> /\ \A i \in 1..Len(v) : v[i] \in Digits
    THEN [ok |-> TRUE, value |-> DigitsValue(v)]
    ELSE [ok |-> FALSE, value |-> 0]

\* scan.py load_rules, lines 71-80: the mapping made of a list of "key:value"
\* strings, from item i on, added to m; an item without a colon or with a
\* value that float() rejects is skipped, a later item replaces an earlier key.
RECURSIVE legacy_bonus(_, _, _)
legacy_bonus(items, i, m) ==
    IF i > Len(items) THEN m
    ELSE LET item == items[i]
             colon == FirstIndex(item, ":")
             k == Strip(SubSeq(item, 1, colon - 1))
             v == parse_float(Strip(SubSeq(item, colon + 1, Len(item))))
         IN  IF colon > 0 /\ v.ok
             THEN legacy_bonus(items, i + 1,
                               [x \in DOMAIN m \cup {k} |-> IF x = k THEN v.value ELSE m[x]])
             ELSE legacy_bonus(items, i + 1, m)

\* scan.py load_rules, lines 70-81: the bonus table main gets.
loaded_bonus(c) ==
    IF c.bonus_is_list THEN legacy_bonus(c.bonus_list, 1, <<>>) ELSE c.bonus_keywords

----------------------------------------------------------------------------
\* Pass 1: MetadataAnalyzer (scan_optimized.py).  Scores are kept in half
\* points (the recency bonus is 0.5), so a field named ...2 holds twice the value.

Pass1Categories == <<"teaching", "service", "scholarship">>

\* load_metadata_rules: filename_patterns.  The source writes r'\\bsyllabus\\b',
\* the regular expression of a backslash, "bsyllabus", a backslash and "b".
filename_patterns ==
    [teaching |-> <<<<"\\", "b", "s", "y", "l", "l", "a", "b", "u", "s", "\\", "b">>,
         <<"\\", "b", "a", "s", "s", "i", "g", "n", "m", "e", "n", "t", "\\", "b">>,
         <<"\\", "b", "e", "x", "a", "m", "\\", "b">>,
         <<"\\", "b", "q", "u", "i", "z", "\\", "b">>,
         <<"\\", "b", "g", "r", "a", "d", "i", "n", "g", "\\", "b">>,
         <<"\\", "b", "r", "u", "b", "r", "i", "c", "\\", "b">>,
         <<"\\", "b", "l", "e", "s", "s", "o", "n", "\\", "b">>,
         <<"\\", "b", "c", "o", "u", "r", "s", "e", "\\", "b">>,
         <<"\\", "b", "s", "t", "u", "d", "e", "n", "t", "\\", "b">>,
         <<"\\", "b", "g", "r", "a", "d", "e", "\\", "b">>,
         <<"\\", "b", "h", "o", "m", "e", "w", "o", "r", "k", "\\", "b">>,
         <<"\\", "b", "t", "e", "s", "t", "\\", "b">>>>,
     service |-> <<<<"\\", "b", "c", "o", "m", "m", "i", "t", "t", "e", "e", "\\", "b">>,
         <<"\\", "b", "m", "e", "e", "t", "i", "n", "g", "\\", "b">>,
         <<"\\", "b", "a", "g", "e", "n", "d", "a", "\\", "b">>,
         <<"\\", "b", "m", "i", "n", "u", "t", "e", "s", "\\", "b">>,
         <<"\\", "b", "r", "e", "v", "i", "e", "w", "\\", "b">>,
         <<"\\", "b", "e", "v", "a", "l", "u", "a", "t", "i", "o", "n", "\\", "b">>,
         <<"\\", "b", "p", "r", "o", "p", "o", "s", "a", "l", "\\", "b">>,
         <<"\\", "b", "s", "e", "r", "v", "i", "c", "e", "\\", "b">>>>,
     scholarship |-> <<<<"\\", "b", "r", "e", "s", "e", "a", "r", "c", "h", "\\", "b">>,
         <<"\\", "b", "p", "a", "p", "e", "r", "\\", "b">>,
         <<"\\", "b", "a", "r", "t", "i", "c", "l", "e", "\\", "b">>,
         <<"\\", "b", "m", "a", "n", "u", "s", "c", "r", "i", "p", "t", "\\", "b">>,
         <<"\\", "b", "a", "b", "s", "t", "r", "a", "c", "t", "\\", "b">>,
         <<"\\", "b", "p", "u", "b", "l", "i", "c", "a", "t", "i", "o", "n", "\\", "b">>,
         <<"\\", "b", "c", "o", "n", "f", "e", "r", "e", "n", "c", "e", "\\", "b">>,
         <<"\\", "b", "g", "r", "a", "n", "t", "\\", "b">>,
         <<"\\", "b", "c", "o", "m", "p", "o", "s", "i", "t", "i", "o", "n", "\\", "b">>,
         <<"\\", "b", "a", "r", "r", "a", "n", "g", "e", "m", "e", "n", "t", "\\", "b">>,
         <<"\\", "b", "d", "r", "i", "l", "l", "\\", "b">>,
         <<"\\", "b", "s", "c", "o", "r", "e", "\\", "b">>>>]

\* load_metadata_rules: path_patterns; a pattern with an optional character is the
\* set of the literals it matches.
path_patterns ==
    [teaching |-> <<{<<"/", "t", "e", "a", "c", "h", "i", "n", "g", "/">>},
         {<<"/", "c", "o", "u", "r", "s", "e", "/">>, <<"/", "c", "o", "u", "r", "s", "e", "s", "/">>},
         {<<"/", "c", "l", "a", "s", "s", "/">>},
         {<<"/", "s", "y", "l", "l", "a", "b", "/">>, <<"/", "s", "y", "l", "l", "a", "b", "i", "/">>},
         {<<"/", "a", "s", "s", "i", "g", "n", "m", "e", "n", "t", "/">>, <<"/", "a", "s", "s", "i", "g", "n", "m", "e", "n", "t", "s", "/">>}>>,
     service |-> <<{<<"/", "s", "e", "r", "v", "i", "c", "e", "/">>},
         {<<"/", "c", "o", "m", "m", "i", "t", "t", "e", "e", "/">>},
         {<<"/", "a", "d", "m", "i", "n", "/">>},
         {<<"/", "m", "e", "e", "t", "i", "n", "g", "/">>, <<"/", "m", "e", "e", "t", "i", "n", "g", "s", "/">>}>>,
     scholarship |-> <<{<<"/", "r", "e", "s", "e", "a", "r", "c", "h", "/">>},
         {<<"/", "p", "u", "b", "l", "i", "c", "a", "t", "i", "o", "n", "/">>, <<"/", "p", "u", "b", "l", "i", "c", "a", "t", "i", "o", "n", "s", "/">>},
         {<<"/", "m", "a", "n", "u", "s", "c", "r", "i", "p", "t", "/">>, <<"/", "m", "a", "n", "u", "s", "c", "r", "i", "p", "t", "s", "/">>},
         {<<"/", "c", "r", "e", "a", "t", "i", "v", "e", "/">>},
         {<<"/", "c", "o", "m", "p", "o", "s", "i", "t", "i", "o", "n", "/">>, <<"/", "c", "o", "m", "p", "o", "s", "i", "t", "i", "o", "n", "s", "/">>}>>]

\* load_metadata_rules: extension_hints
extension_hints ==
    [teaching |-> (<<".", "p", "p", "t", "x">> :> 3) @@ (<<".", "p", "d", "f">> :> 1) @@ (<<".", "d", "o", "c", "x">> :> 2)
                  @@ (<<".", "x", "l", "s", "x">> :> 2),
     scholarship |-> (<<".", "p", "d", "f">> :> 3) @@ (<<".", "d", "o", "c", "x">> :> 3) @@ (<<".", "m", "u", "s", "x">> :> 5)
                  @@ (<<".", "s", "i", "b">> :> 5) @@ (<<".", "3", "d", "j">> :> 5) @@ (<<".", "m", "u", "s", "i", "c", "x", "m", "l">> :> 4),
     service |-> (<<".", "p", "d", "f">> :> 2) @@ (<<".", "d", "o", "c", "x">> :> 2) @@ (<<".", "x", "l", "s", "x">> :> 2)
                  @@ (<<".", "p", "p", "t", "x">> :> 1)]

\* max(scores, key=scores.get): the first category, in the order of the dict,
\* that holds the maximum.
best_of(scores2) ==
    LET i == CHOOSE i \in 1..Len(Pass1Categories) :
                 /\ \A j \in 1..Len(Pass1Categories) :
                        scores2[Pass1Categories[j]] <= scores2[Pass1Categories[i]]
                 /\ \A j \in 1..(i - 1) :
                        scores2[Pass1Categories[j]] < scores2[Pass1Categories[i]]
    IN  Pass1Categories[i]

\* The reasons of one category for the patterns that hit (hits[i] for pattern i): one
\* entry <<kind, category, index of the pattern>> for each, in the order of the list.
reasons_of(kind, c, hits) ==
    LET at == SelectSeq([i \in 1..Len(hits) |-> i], LAMBDA i : hits[i])
    IN  [k \in 1..Len(at) |-> <<kind, c, at[k]>>]

\* A plausible slip: the confidence floor is left out.
analyze_file_metadata_no_floor(f, t) ==
    LET filename == LowerStr(basename(f.path))
        path_lower == LowerStr(f.path)
        ext == splitext_ext(filename)
        fn(c) == Cardinality({i \in 1..Len(filename_patterns[c]) :
                                 re_search(filename_patterns[c][i], filename)})
        pp(c) == Cardinality({i \in 1..Len(path_patterns[c]) :
                                 \E alt \in path_patterns[c][i] : re_search(alt, path_lower)})
        eh(c) == IF ext \in DOMAIN extension_hints[c] THEN extension_hints[c][ext] ELSE 0
        recent2 == IF t - f.mtime < 365 * 86400 THEN 1 ELSE 0
        penalty == IF f.size < 1024 THEN -2
                   ELSE IF f.size > 100000 * 1024 THEN -1 ELSE 0
        total2(c) == 2 * (2 * fn(c) + 3 * pp(c) + eh(c) + penalty) + recent2
        scores2 == [teaching |-> total2("teaching"), service |-> total2("service"),
                    scholarship |-> total2("scholarship")]
        best == best_of(scores2)
    IN  [path |-> f.path, category |-> best, confidence2 |-> scores2[best],
         scores2 |-> scores2, reasons |-> <<>>, size |-> f.size,
         age_seconds |-> t - f.mtime, extension |-> ext]

\* MetadataAnalyzer.analyze_file_metadata(filepath, file_stats) at time t (seconds).
\* size is size_kb in bytes and age_seconds is age_days in seconds.
analyze_file_metadata(f, t) ==
    LET filename == LowerStr(basename(f.path))
        path_lower == LowerStr(f.path)
        ext == splitext_ext(filename)
        fhit(c, i) == re_search(filename_patterns[c][i], filename)
        phit(c, i) == \E alt \in path_patterns[c][i] : re_search(alt, path_lower)
        fn(c) == Cardinality({i \in 1..Len(filename_patterns[c]) : fhit(c, i)})
        pp(c) == Cardinality({i \in 1..Len(path_patterns[c]) : phit(c, i)})
        eh(c) == IF ext \in DOMAIN extension_hints[c] THEN extension_hints[c][ext] ELSE 0
        recent2 == IF t - f.mtime < 365 * 86400 THEN 1 ELSE 0
        penalty == IF f.size < 1024 THEN -2
                   ELSE IF f.size > 100000 * 1024 THEN -1 ELSE 0
        total2(c) == 2 * (2 * fn(c) + 3 * pp(c) + eh(c) + penalty) + recent2
        teaching2 == total2("teaching")
        service2 == total2("service")
        scholarship2 == total2("scholarship")
        scores2 == [teaching |-> teaching2, service |-> service2,
                    scholarship |-> scholarship2]
        best == best_of(scores2)
        confidence2 == scores2[best]
        freasons(c) == reasons_of("filename", c,
                                  [i \in 1..Len(filename_patterns[c]) |-> fhit(c, i)])
        preasons(c) == reasons_of("path", c,
                                  [i \in 1..Len(path_patterns[c]) |-> phit(c, i)])
        ereasons(c) == IF ext \in DOMAIN extension_hints[c] THEN <<(<<"ext", c, 0>>)>> ELSE <<>>
        reasons == freasons("teaching") \o freasons("service") \o freasons("scholarship")
                   \o preasons("teaching") \o preasons("service") \o preasons("scholarship")
                   \o ereasons("teaching") \o ereasons("scholarship") \o ereasons("service")
                   \o (IF recent2 = 1 THEN <<(<<"recent_file">>)>> ELSE <<>>)
                   \o (IF penalty = -2 THEN <<(<<"tiny_file">>)>>
                       ELSE IF penalty = -1 THEN <<(<<"huge_file">>)>> ELSE <<>>)
    IN  IF confidence2 < 2
        THEN [path |-> f.path, category |-> "misc", confidence2 |-> 0, scores2 |-> scores2,
              reasons |-> reasons \o <<(<<"low_confidence">>)>>, size |-> f.size,
              age_seconds |-> t - f.mtime, extension |-> ext]
        ELSE [path |-> f.path, category |-> best, confidence2 |-> confidence2,
              scores2 |-> scores2, reasons |-> reasons, size |-> f.size,
              age_seconds |-> t - f.mtime, extension |-> ext]

----------------------------------------------------------------------------
\* The inputs of a run.

\* Bounds of the driver specification.

MaxFiles == 2

MaxRuns == 2

PROPRIETARY_HINTS ==
    {<<".", "s", "i", "b">>, <<".", "m", "u", "s", "x">>, <<".", "m", "u", "s">>, <<".", "f", "t", "m", "x">>, <<".", "f", "t", "m">>,
     <<".", "3", "d", "j">>, <<".", "3", "d", "z">>, <<".", "3", "d", "a">>, <<".", "p", "r", "o", "d">>}

None == 0 - 1

Pad(n) == [i \in 1..n |-> "_"]

\* Files: path, the text its reader extracts (content), whether os.stat succeeds,
\* st_mtime (seconds) and st_size (bytes).
FileA ==
    [path |-> <<"/", "r", "e", "s", "e", "a", "r", "c", "h", "/", "a", ".", "t", "x", "t">>, content |-> <<"g", "r", "a", "n", "t", " ", "N", "S", "F", " ", "g", "r", "a", "n", "t">>,
     stat_ok |-> TRUE, mtime |-> 39000000, size |-> 2048]

FileB ==
    [path |-> <<"/", "r", "e", "s", "e", "a", "r", "c", "h", "/", "b", ".", "t", "x", "t">>, content |-> <<"g", "r", "a", "n", "t", " ", "n", "s", "f", " ", "G", "R", "A", "N", "T">>,
     stat_ok |-> TRUE, mtime |-> 39000000, size |-> 2048]

FileSib ==
    [path |-> <<"/", "r", "e", "s", "e", "a", "r", "c", "h", "/", "c", "o", "m", "p", ".", "s", "i", "b">>, content |-> <<>>,
     stat_ok |-> TRUE, mtime |-> 39000000, size |-> 2048]

FileLongSib ==
    [path |-> <<"/", "r", "e", "s", "e", "a", "r", "c", "h", "/", "c", "o", "m", "p">> \o Pad(42) \o <<".", "s", "i", "b">>, content |-> <<>>,
     stat_ok |-> TRUE, mtime |-> 39000000, size |-> 2048]

FileEmpty ==
    [path |-> <<"/", "r", "e", "s", "e", "a", "r", "c", "h", "/", "e", ".", "t", "x", "t">>, content |-> <<>>,
     stat_ok |-> TRUE, mtime |-> 39000000, size |-> 2048]

FileBlank ==
    [path |-> <<"/", "r", "e", "s", "e", "a", "r", "c", "h", "/", "w", ".", "t", "x", "t">>, content |-> <<" ">>,
     stat_ok |-> TRUE, mtime |-> 39000000, size |-> 2048]

FileNsf ==
    [path |-> <<"n", ".", "t", "x", "t">>, content |-> <<"n", "s", "f", " ", "n", "s", "f">>,
     stat_ok |-> TRUE, mtime |-> 1000, size |-> 100]

FileGone ==
    [path |-> <<"/", "r", "e", "s", "e", "a", "r", "c", "h", "/", "x", ".", "t", "x", "t">>, content |-> <<"g", "r", "a", "n", "t">>,
     stat_ok |-> FALSE, mtime |-> 39000000, size |-> 2048]

FileList ==
    <<FileA, FileB, FileSib, FileLongSib, FileEmpty, FileBlank, FileNsf, FileGone>>

FileUniverse == Range(FileList)

\* Calendar files: whether Calendar.from_ical parses it, and its VEVENTs.
IcsA ==
    [path |-> <<"a", ".", "i", "c", "s">>, parses |-> TRUE,
     events |-> <<[subj |-> <<"G", "r", "a", "n", "t">>, desc |-> <<"N", "S", "F", " ", "g", "r", "a", "n", "t">>, loc |-> <<>>, start |-> 1]>>]

IcsB ==
    [path |-> <<"b", ".", "i", "c", "s">>, parses |-> TRUE,
     events |-> <<[subj |-> <<"G", "r", "a", "n", "t">>, desc |-> <<"N", "S", "F", " ", "g", "r", "a", "n", "t">>, loc |-> <<>>, start |-> 2]>>]

IcsUniverse == {IcsA, IcsB}

\* Mailbox files: whether mailbox.mbox opens it, and its messages (body: the
\* decoded text of the message).
MboxA ==
    [path |-> <<"m", ".", "m", "b", "o", "x">>, opens |-> TRUE,
     messages |-> <<[subj |-> <<"g", "r", "a", "n", "t">>, frm |-> <<"x">>, to |-> <<>>, date |-> 3,
                     body |-> <<"n", "s", "f">>]>>]

MboxUniverse == {MboxA}

\* Rule documents: the entries of cfg["categories"] in document order; has_any
\* tells whether the entry has an "any" key.
RulesA ==
    <<[cat |-> Scholarship, sub |-> Research, has_any |-> TRUE, any |-> <<<<"g", "r", "a", "n", "t">>>>],
      [cat |-> Scholarship, sub |-> Creative, has_any |-> TRUE, any |-> <<<<"c", "o", "m", "p">>>>]>>

RulesBadPattern ==
    <<[cat |-> Scholarship, sub |-> Research, has_any |-> TRUE,
       any |-> <<<<"g", "r", "a", "n", "t">>, <<"g", "r", "(", "a", "n", "t">>>>]>>

RulesNoAny ==
    <<[cat |-> Scholarship, sub |-> Research, has_any |-> TRUE, any |-> <<<<"g", "r", "a", "n", "t">>>>],
      [cat |-> Service, sub |-> Committee, has_any |-> FALSE, any |-> <<>>]>>

\* scoring.category_weights (YAML floats with whole values)
WeightChoices ==
    {<<>>, (Scholarship :> 2), (Scholarship :> 0)}

\* scoring.bonus_keywords (a mapping)
BonusChoices ==
    {<<>>, (<<"N", "S", "F">> :> 5), (<<>> :> 1)}

\* scoring.bonus_keywords in the legacy form, a list of "key:value" strings:
\* a good entry, an entry without a colon, an entry whose value is no number.
LegacyBonusList ==
    <<<<" ", "N", "S", "F", " ", ":", " ", "5">>, <<"g", "r", "a", "n", "t">>,
      <<"g", "r", "a", "n", "t", ":", "x">>>>

\* scoring.per_hit_points and scoring.cap_per_file
ScoringChoices == {[per_hit |-> 1, cap |-> 10], [per_hit |-> 2, cap |-> 3]}

Configs ==
    {[readable |-> TRUE, categories |-> RulesA, per_hit |-> s.per_hit, cap |-> s.cap,
      category_weights |-> w, bonus_keywords |-> b,
      bonus_is_list |-> FALSE, bonus_list |-> <<>>,
      include_extensions |-> {<<".", "t", "x", "t">>, <<".", "s", "i", "b">>}] :
        s \in ScoringChoices, w \in WeightChoices, b \in BonusChoices}
    \cup
    {[readable |-> r.readable, categories |-> r.categories, per_hit |-> 1, cap |-> 10,
      category_weights |-> <<>>, bonus_keywords |-> <<>>,
      bonus_is_list |-> FALSE, bonus_list |-> <<>>,
      include_extensions |-> {<<".", "t", "x", "t">>, <<".", "s", "i", "b">>}] :
        r \in {[readable |-> TRUE, categories |-> RulesBadPattern],
               [readable |-> TRUE, categories |-> RulesNoAny],
               [readable |-> FALSE, categories |-> RulesA]}}
    \cup
    \* the legacy list; bonus_keywords is the mapping it stands for
    {[readable |-> TRUE, categories |-> RulesA, per_hit |-> 1, cap |-> 10,
      category_weights |-> w, bonus_keywords |-> (<<"N", "S", "F">> :> 5),
      bonus_is_list |-> TRUE, bonus_list |-> LegacyBonusList,
      include_extensions |-> {<<".", "t", "x", "t">>, <<".", "s", "i", "b">>}] :
        w \in {<<>>, (Scholarship :> 2)}}

\* --categories
CategoryChoices ==
    {<<"teaching", "service", "scholarship">>, <<"scholarship", "misc">>}

NowChoices == {40000000}

\* --max-bytes, and to_epoch of --modified-since and --modified-until
ArgChoices ==
    {[max_bytes |-> 0, since_ts |-> None, until_ts |-> None],
     [max_bytes |-> 1000, since_ts |-> None, until_ts |-> None]}

\* --min-confidence in half points: the default 1.0, and 3.0
DefaultMinConfidence2 == 2
MinConfidenceChoices == {DefaultMinConfidence2, 6}

\* The arguments of scan_optimized.py: those above and --min-confidence.
TwoPassArgChoices ==
    {[max_bytes |-> a.max_bytes, since_ts |-> a.since_ts, until_ts |-> a.until_ts,
      min_confidence2 |-> m] : a \in ArgChoices, m \in MinConfidenceChoices}

\* Sequences of distinct elements of S of length at most n.
DistinctSeqs(S, n) ==
    {s \in SeqsUpTo(S, n) : \A i, j \in DOMAIN s : i # j => s[i] # s[j]}

\* The path lists of at most n distinct files.  scan.py makes a set of the list,
\* so for it (in_order) the lists that differ in order only are one input.
PathLists(n, in_order) ==
    {[k \in DOMAIN ix |-> FileList[ix[k]]] :
        ix \in {s \in DistinctSeqs(1..Len(FileList), n) :
                   in_order => \A i, j \in DOMAIN s : i < j => s[i] < s[j]}}

\* analyze_file_metadata tabulated over the files and the times of the model.
Pass1Table ==
    {<<t, f, analyze_file_metadata(f, t)>> : t \in NowChoices, f \in FileUniverse}

Pass1Of(f, t) == (CHOOSE e \in Pass1Table : e[1] = t /\ e[2] = f)[3]

----------------------------------------------------------------------------
\* Sorting the rows.

\* key(a) < key(b) for the key (source, -float(score), category, subcategory) and,
\* when with_display, display as the fifth component.
KeyLess(a, b, with_display) ==
    \/ StrLess(a.source, b.source)
    \/ /\ a.source = b.source
       /\ \/ a.score > b.score
          \/ /\ a.score = b.score
             /\ \/ StrLess(a.category, b.category)
                \/ /\ a.category = b.category
                   /\ \/ StrLess(a.subcategory, b.subcategory)
                      \/ /\ a.subcategory = b.subcategory
                         /\ with_display
                         /\ StrLess(a.display, b.display)

\* list.sort(key=...) is stable: a row goes before the first row with a greater key.
RECURSIVE sort_from(_, _, _, _)
sort_from(rs, i, acc, with_display) ==
    IF i > Len(rs) THEN acc
    ELSE LET r == rs[i]
             later == {k \in 1..Len(acc) : KeyLess(r, acc[k], with_display)}
             at == IF later = {} THEN Len(acc) + 1
                   ELSE CHOOSE k \in later : \A m \in later : k <= m
         IN  sort_from(rs, i + 1,
                       SubSeq(acc, 1, at - 1) \o <<r>> \o SubSeq(acc, at, Len(acc)),
                       with_display)

\* scan_optimized.py line 305
TwoPass_sort_rows(rs) == sort_from(rs, 1, <<>>, FALSE)

----------------------------------------------------------------------------
\* Scoring one item.

Indices(s) == [i \in 1..Len(s) |-> i]

\* scan_optimized.py lines 246-301, the body of the Pass 2 loop for one file.
\* bonus_keywords is read as it is in the document (line 232): when it is a
\* list, bonus_keywords.items() raises at the first pair that scores, before a
\* row is appended, and line 300 goes on to the next file.
TwoPass_scan_file(f, c, comp) ==
    LET ext == LowerStr(splitext_ext(f.path))
        text0 == extract_text(f)
        text == IF text0 = <<>> /\ ext \in PROPRIETARY_HINTS
                THEN LowerStr(basename(f.path)) ELSE text0
        sc(i) == TwoPass_score_text(text, comp[i].pats, c.per_hit, c.cap)
        hit == SelectSeq(Indices(comp), LAMBDA i : sc(i).score > 0)
        row(i) == [source |-> SRC_FILES, path |-> f.path, display |-> f.path,
                   category |-> comp[i].cat, subcategory |-> comp[i].sub,
                   hits |-> sc(i).hits,
                   score |-> sc(i).score * category_weight(c.category_weights, comp[i].cat)
                             + TwoPass_bonus_sum(c.bonus_keywords, text),
                   meta |-> <<f.mtime>>, when |-> f.mtime, text |-> text]
    IN  IF ~ f.stat_ok THEN [rows |-> <<>>, counted |-> "stat_failed"]
        ELSE IF text = <<>> \/ IsBlank(text) THEN [rows |-> <<>>, counted |-> "empty"]
        ELSE IF c.bonus_is_list /\ hit # <<>> THEN [rows |-> <<>>, counted |-> "nonempty"]
        ELSE [rows |-> [k \in 1..Len(hit) |-> row(hit[k])],
              counted |-> IF hit # <<>> THEN "matched" ELSE "nonempty"]

\* iter_ics([path]): one item per VEVENT; a file that does not parse yields nothing.
iter_ics(ics) ==
    IF ~ ics.parses THEN <<>>
    ELSE [k \in 1..Len(ics.events) |->
            LET e == ics.events[k]
            IN  [display |-> IF e.subj = <<>> THEN <<"(", "n", "o", " ", "t", "i", "t", "l", "e", ")">> ELSE e.subj,
                 text |-> join_lines(<<e.subj, e.desc, e.loc>>),
                 when |-> e.start, meta |-> <<e.start, e.loc>>]]

\* iter_mbox([path]): one item per message.
iter_mbox(mb) ==
    IF ~ mb.opens THEN <<>>
    ELSE [k \in 1..Len(mb.messages) |->
            LET m == mb.messages[k]
            IN  [display |-> IF m.subj = <<>> THEN <<"(", "n", "o", " ", "s", "u", "b", "j", "e", "c", "t", ")">> ELSE m.subj,
                 text |-> join_lines(<<m.subj, m.frm, m.to, m.body>>),
                 when |-> m.date, meta |-> <<m.date, m.frm, m.to>>]]

\* truthiness of an optional number: None and 0 are false
Truthy(x) == x # None /\ x # 0

----------------------------------------------------------------------------
\* The directory walk: walk_files (scan.py) and walk_directories
\* (scan_optimized.py).  A path is the sequence of its names; a date is the
\* number of its day, 1970-01-01 being day 0.

SecondsPerDay == 86400

\* to_epoch(dstr): None without a date, else midnight UTC of the date in seconds.
to_epoch(dstr) == IF dstr = None THEN None ELSE dstr * SecondsPerDay

DirR == <<<<"r">>>>

DirSkipRoot == <<<<"s", "k", "i", "p">>>>

\* The tree: for every directory, its dirnames and its files as os.walk lists
\* them; a file has its name and what os.stat gives for it.
WalkTree ==
    (DirR :> [dirnames |-> <<<<"s", "k", "i", "p">>, <<"k", "e", "e", "p">>>>,
              files |-> <<[name |-> <<"a", ".", "t", "x", "t">>, size |-> 10, mtime |-> 86399, stat_ok |-> TRUE],
                          [name |-> <<"B", ".", "T", "X", "T">>, size |-> 2000, mtime |-> 86400, stat_ok |-> TRUE],
                          [name |-> <<"c", ".", "m", "d">>, size |-> 10, mtime |-> 172799, stat_ok |-> TRUE],
                          [name |-> <<"g", "o", "n", "e", ".", "t", "x", "t">>, size |-> 10, mtime |-> 86399, stat_ok |-> FALSE],
                          [name |-> <<"o", "l", "d", ".", "t", "x", "t">>, size |-> 10, mtime |-> 0 - 5, stat_ok |-> TRUE],
                          [name |-> <<"l", "a", "t", "e", ".", "t", "x", "t">>, size |-> 10, mtime |-> 172800, stat_ok |-> TRUE]>>])
    @@ (<<<<"r">>, <<"s", "k", "i", "p">>>> :> [dirnames |-> <<<<"k", "e", "e", "p">>>>,
                            files |-> <<[name |-> <<"s", ".", "t", "x", "t">>, size |-> 10, mtime |-> 86399, stat_ok |-> TRUE]>>])
    @@ (<<<<"r">>, <<"s", "k", "i", "p">>, <<"k", "e", "e", "p">>>> :> [dirnames |-> <<>>,
                            files |-> <<[name |-> <<"d", ".", "t", "x", "t">>, size |-> 10, mtime |-> 86399, stat_ok |-> TRUE]>>])
    @@ (<<<<"r">>, <<"k", "e", "e", "p">>>> :> [dirnames |-> <<<<"s", "k", "i", "p">>>>,
                            files |-> <<[name |-> <<"e", ".", "t", "x", "t">>, size |-> 10, mtime |-> 172799, stat_ok |-> TRUE]>>])
    @@ (<<<<"r">>, <<"k", "e", "e", "p">>, <<"s", "k", "i", "p">>>> :> [dirnames |-> <<>>,
                            files |-> <<[name |-> <<"f", ".", "t", "x", "t">>, size |-> 10, mtime |-> 86399, stat_ok |-> TRUE]>>])
    @@ (DirSkipRoot :> [dirnames |-> <<>>,
                        files |-> <<[name |-> <<"g", ".", "t", "x", "t">>, size |-> 10, mtime |-> 86399, stat_ok |-> TRUE]>>])

RootChoices == {<<DirR>>, <<DirSkipRoot>>, <<DirR, DirSkipRoot>>}

ExcludeChoices == {{}, {<<"s", "k", "i", "p">>}}

ExtChoices == {{}, {<<".", "t", "x", "t">>}}

DateChoices == {None, 0, 1}

MaxBytesChoices == {0, 1000}

\* A plausible slip: the directories are not pruned.
pruned_unfiltered(dirnames, exclude_dirs) == dirnames

\* scan.py line 96: dirnames[:] = [d for d in dirnames if d not in exclude_dirs]
pruned(dirnames, exclude_dirs) ==
    SelectSeq(dirnames, LAMBDA d : d \notin exclude_dirs)

\* scan_optimized.py line 355
TwoPass_pruned(dirnames, exclude_dirs) ==
    SelectSeq(dirnames, LAMBDA d : d \notin exclude_dirs)

\* scan.py walk_files lines 99-112: the file is yielded.
walk_files_yields(file, include_exts, since_ts, until_ts, max_bytes) ==
    LET ext == splitext_ext(LowerStr(file.name))
    IN  /\ ~ (include_exts # {} /\ ext \notin include_exts)
        /\ file.stat_ok
        /\ ~ (Truthy(max_bytes) /\ file.size > max_bytes)
        /\ ~ (Truthy(since_ts) /\ file.mtime < since_ts)
        /\ ~ (Truthy(until_ts) /\ file.mtime > until_ts + 86399)

\* scan_optimized.py walk_directories lines 359-380: the file is appended.
walk_directories_yields(file, include_exts, since_ts, until_ts, max_bytes) ==
    LET ext == splitext_ext(LowerStr(file.name))
    IN  /\ ~ (include_exts # {} /\ ext \notin include_exts)
        /\ file.stat_ok
        /\ ~ (Truthy(max_bytes) /\ file.size > max_bytes)
        /\ ~ (Truthy(since_ts) /\ file.mtime < since_ts)
        /\ ~ (Truthy(until_ts) /\ file.mtime > until_ts + 86399)

\* No walk is under way.
WalkIdle ==
    /\ w_fn = "none"
    /\ w_roots = <<>>
    /\ w_exclude = {}
    /\ w_exts = {}
    /\ w_args = <<>>
    /\ w_pc = "idle"
    /\ w_pending = <<>>
    /\ w_visited = {}
    /\ w_yielded = <<>>
    /\ w_listing = <<>>

----------------------------------------------------------------------------
\* The classification specification: analyze_file_metadata called twice on one
\* path and stat result.

ClassifyPaths ==
    {<<"/", "t", "e", "a", "c", "h", "i", "n", "g", "/", "s", "y", "l", "l", "a", "b", "u", "s", ".", "p", "d", "f">>,
     <<"/", "r", "e", "s", "e", "a", "r", "c", "h", "/", "a", ".", "t", "x", "t">>,
     <<"/", "s", "e", "r", "v", "i", "c", "e", "/", "x", ".", "d", "o", "c", "x">>,
     <<"n", ".", "t", "x", "t">>,
     <<"/", "r", "e", "s", "e", "a", "r", "c", "h", "/", "c", "o", "m", "p", ".", "s", "i", "b">>,
     <<"/", "c", "o", "u", "r", "s", "e", "s", "/", "m", "e", "e", "t", "i", "n", "g", "s", "/", "m", ".", "p", "p", "t", "x">>,
     <<"/", "x", "/", "\\", "b", "g", "r", "a", "n", "t", "\\", "b", ".", "t", "x", "t">>,
     <<"/", "a", "/", "b", ".", "x", "l", "s", "x">>,
     <<"s", "y", "l", "l", "a", "b", "u", "s", ".", "p", "d", "f">>,
     <<"/", "x", "/", "G", "r", "a", "n", "t", " ", "r", "e", "p", "o", "r", "t", ".", "t", "x", "t">>}

ClassifySizes == {100, 2048, 200000000}

ClassifyMtimes == {1000, 39000000}

\* the clock at the first and at the second call
ClassifyClocks == {<<40000000, 40000000>>, <<40000000, 80000000>>}

\* No classification call is under way.
ClassifyIdle ==
    /\ cl_file = <<>>
    /\ cl_now = <<>>
    /\ cl_recs = <<>>

\* No function is called.
CallIdle ==
    /\ call_fn = "none"
    /\ call_args = <<>>
    /\ call_res = <<>>

\* There is no application.
AppIdle ==
    /\ scanning = FALSE
    /\ current_scan_process = None
    /\ scan_thread = None
    /\ threads = <<>>
    /\ procs = <<>>
    /\ ui = "none"
    /\ ui_process = None

----------------------------------------------------------------------------
\* The scoring specification: the two scoring functions on every bounded input.

ScoreChars == {"a", "A", "b"}

ScorePatterns == {<<>>, <<"a">>, <<"a", "a">>, <<"a", "b">>}

\* per_hit_points is taken as it is too: int(per_hit_points), scan.py line 67
PerHitChoices == {-1, 0, 1, 2}

NoResult == [score |-> 0, hits |-> -1]

\* No scoring call is under way (the driver specification).
ScoreIdle ==
    /\ sc_text = <<>>
    /\ sc_pats = <<>>
    /\ sc_per_hit = 0
    /\ sc_cap = 0
    /\ sc_fn = "none"
    /\ sc_res = NoResult

\* No run is under way (the scoring specification).
DriverIdle ==
    /\ driver = "none"
    /\ cfg = <<>>
    /\ path_list = <<>>
    /\ ics_paths = {}
    /\ mbox_paths = {}
    /\ categories_to_process = <<>>
    /\ pass1_only = FALSE
    /\ args = <<>>
    /\ now = 0
    /\ pc = "idle"
    /\ compiled = <<>>
    /\ files_to_scan = <<>>
    /\ idx = 0
    /\ rows = <<>>
    /\ stats = <<>>
    /\ outputs = {}
    /\ progress = <<>>
    /\ progress_log = <<>>
    /\ categorized = <<>>
    /\ pass1_json = <<>>
    /\ reported = <<>>
    /\ enumerated = FALSE
    /\ run = 1
    /\ prev_reported = <<>>

ScoreInit ==
    /\ DriverIdle
    /\ WalkIdle
    /\ ClassifyIdle
    /\ CallIdle
    /\ AppIdle
    /\ sc_text \in SeqsUpTo(ScoreChars, MaxTextLen)
    /\ sc_pats \in SeqsUpTo(ScorePatterns, MaxPats)
    /\ sc_per_hit \in PerHitChoices
    /\ sc_cap \in (0 - MaxNegativeCap)..MaxCap
    /\ sc_fn = "none"
    /\ sc_res = NoResult

CallScoreText ==
    /\ sc_fn = "none"
    /\ sc_fn' = "score_text"
    /\ sc_res' = score_text(sc_text, sc_pats, sc_per_hit, sc_cap)
    /\ UNCHANGED <<sc_text, sc_pats, sc_per_hit, sc_cap, input_vars, run_vars, walk_vars, classify_vars, call_vars, app_vars>>

CallTwoPassScoreText ==
    /\ sc_fn = "none"
    /\ sc_fn' = "_score_text"
    /\ sc_res' = TwoPass_score_text(sc_text, sc_pats, sc_per_hit, sc_cap)
    /\ UNCHANGED <<sc_text, sc_pats, sc_per_hit, sc_cap, input_vars, run_vars, walk_vars, classify_vars, call_vars, app_vars>>

ScoreNext == CallScoreText \/ CallTwoPassScoreText

SpecScore == ScoreInit /\ [][ScoreNext]_vars

\* The classification specification.

ClassifyInit ==
    /\ ScoreIdle
    /\ DriverIdle
    /\ WalkIdle
    /\ CallIdle
    /\ AppIdle
    /\ cl_file \in [path : ClassifyPaths, size : ClassifySizes, mtime : ClassifyMtimes,
                     stat_ok : {TRUE}]
    /\ cl_now \in ClassifyClocks
    /\ cl_recs = <<>>

\* scan_optimized.py lines 168-169: analyze_file_metadata(filepath, file_stats);
\* the function reads the clock.
CallAnalyze ==
    /\ Len(cl_recs) < Len(cl_now)
    /\ cl_recs' = Append(cl_recs, analyze_file_metadata(cl_file, cl_now[Len(cl_recs) + 1]))
    /\ UNCHANGED <<cl_file, cl_now, score_vars, input_vars, run_vars, walk_vars, call_vars,
                   app_vars>>

ClassifyNext == CallAnalyze

SpecClassify == ClassifyInit /\ [][ClassifyNext]_vars

\* The progress reporter on its own: write_progress of scan.py on the counts the
\* driver passes it and on the readings of the clock.  Times are in whole
\* seconds; the two rounded fields of the payload are in hundredths of a second.

MaxTotal == 4

ProgressStages == {"indexing", "filtering", "walking", "processing", "done", "done_no_matches"}

\* The counts: the small ones, and counts at which (total - n) * elapsed / n
\* falls halfway between two hundredths (n a multiple of 8).
CountChoices == 0..MaxTotal \cup {8, 9, 40, 41}

\* now - started_ts; time.time() is not monotonic, so it can be zero or negative.
ElapsedChoices == {0 - 1, 0, 1, 2, 3, 123}

\* The arithmetic of write_progress is that of IEEE 754 doubles: a quotient is
\* the double nearest to the exact quotient (53 significant bits, ties to even).

RECURSIVE Pow2(_)
\* 2^k
Pow2(k) == IF k = 0 THEN 1 ELSE 2 * Pow2(k - 1)

RECURSIVE Pow2Mod(_, _)
\* 2^k modulo m
Pow2Mod(k, m) == IF k = 0 THEN 1 % m ELSE (2 * Pow2Mod(k - 1, m)) % m

RECURSIVE BinaryExponentFrom(_, _, _)
\* the largest L with 2^L <= p / q, searched from L (p, q > 0)
BinaryExponentFrom(p, q, L) ==
    IF L >= 0 /\ q * Pow2(L + 1) <= p THEN BinaryExponentFrom(p, q, L + 1)
    ELSE IF L <= 0 /\ p * Pow2(0 - L) < q THEN BinaryExponentFrom(p, q, L - 1)
    ELSE L

\* the binary exponent of the quotient p / q
BinaryExponent(p, q) == BinaryExponentFrom(p, q, 0)

\* write_progress line 41: rate = n / elapsed.  The double differs from n / e by
\* rate_error(n, e) / e units of its last place (between -1/2 and 1/2).
rate_error(n, e) ==
    LET k == 52 - BinaryExponent(n, e)
        r == ((n % e) * Pow2Mod(k, e)) % e
    IN  IF 2 * r < e THEN 0 - r ELSE e - r

\* write_progress line 43: remaining = (total - n) / rate, for d = total - n and
\* rate the double of line 41.  The side of the exact d * e / n on which the
\* double lies: 1 above, -1 below, 0 when it is d * e / n itself.  In units of
\* the last place of d * e / n, the exact d * e / n ends in the fraction fn / n
\* and the quotient by the double rate in g = gnum / gden; the double is the
\* nearest whole number of units.  Below a power of two doubles are twice as
\* dense.
remaining_side(n, d, e) ==
    LET k == 52 - BinaryExponent(n, e)
        s == 52 - BinaryExponent(d * e, n)
        fn == (((d * e) % n) * Pow2Mod(s, n)) % n
        up == IF s >= k THEN Pow2(s - k) ELSE 1
        dn == IF s >= k THEN 1 ELSE Pow2(k - s)
        gnum == fn * n * dn - rate_error(n, e) * d * e * up
        gden == n * n * dn
        L == BinaryExponent(d * e, n)
        power_of_two == IF L >= 0 THEN d * e = n * Pow2(L) ELSE d * e * Pow2(0 - L) = n
        c == IF power_of_two /\ gnum < 0
             THEN IF (4 * gnum + gden) \div (2 * gden) < 0 THEN 0 - 1 ELSE 0
             ELSE (2 * gnum + gden) \div (2 * gden)
    IN  IF c * n > fn THEN 1 ELSE IF c * n < fn THEN 0 - 1 ELSE 0

\* write_progress lines 41, 43 and 49: round(remaining, 2) in hundredths, for
\* d = total - n > 0, n > 0 and e = elapsed > 0.  round() gives the hundredth
\* nearest to the double; halfway between two hundredths the double decides,
\* and a double that is exactly halfway goes to the even hundredth.
round_remaining(n, d, e) ==
    LET p == 100 * d * e
        K == p \div n
        r == p % n
    IN  IF 2 * r < n THEN K
        ELSE IF 2 * r > n THEN K + 1
        ELSE IF remaining_side(n, d, e) > 0 THEN K + 1
        ELSE IF remaining_side(n, d, e) < 0 THEN K
        ELSE IF K % 2 = 0 THEN K ELSE K + 1

\* A plausible slip: the test of total is left out.
eta_sec_without_total_test(n, total, elapsed) ==
    IF n # 0 /\ elapsed > 0 /\ n > 0
    THEN IF total - n > 0 THEN round_remaining(n, total - n, elapsed) ELSE 0
    ELSE None

\* write_progress lines 39-43 and 49: eta_sec in hundredths, None for null.
\* rate = n / elapsed is positive only for n > 0 and elapsed > 0; remaining is
\* max(0.0, (total - n) / rate), and round(remaining, 2) is what is stored.
eta_sec(n, total, elapsed) ==
    IF total # 0 /\ n # 0 /\ elapsed > 0 /\ n > 0
    THEN IF total - n > 0 THEN round_remaining(n, total - n, elapsed) ELSE 0
    ELSE None

\* write_progress lines 44-51: the payload, updated_at apart.
write_progress(stage, n, total, elapsed) ==
    [stage |-> stage, processed |-> n, total |-> total,
     elapsed_sec |-> 100 * elapsed, eta_sec |-> eta_sec(n, total, elapsed)]

\* The counts the driver passes: n from 0 to total, and in the walking stage a
\* total of 0 with any n; progress.json can be opened for writing or cannot.
ProgressInit ==
    /\ ScoreIdle
    /\ DriverIdle
    /\ WalkIdle
    /\ ClassifyIdle
    /\ AppIdle
    /\ call_fn = "write_progress"
    /\ call_args \in {a \in [stage : ProgressStages, n : CountChoices, total : CountChoices,
                              elapsed : ElapsedChoices, writable : BOOLEAN] :
                          /\ a.stage = "walking" => a.total = 0
                          /\ a.stage # "walking" => a.n <= a.total
                          /\ a.stage = "indexing" => a.total = 0
                          /\ a.stage = "done" => a.n = a.total
                          /\ a.stage = "done_no_matches" => a.n = 0}
    /\ call_res = <<>>

Call_write_progress ==
    /\ call_fn = "write_progress"
    /\ call_res = <<>>
    /\ call_args.writable
    /\ call_res' = write_progress(call_args.stage, call_args.n, call_args.total,
                                  call_args.elapsed)
    /\ UNCHANGED <<call_fn, call_args, score_vars, input_vars, run_vars, walk_vars,
                   classify_vars, app_vars>>

\* write_progress lines 52-53: open() raises OSError on a progress.json that
\* cannot be opened for writing (a directory, a read-only file); nothing in
\* write_progress catches it.
Call_write_progress_raises ==
    /\ call_fn = "write_progress"
    /\ call_res = <<>>
    /\ ~ call_args.writable
    /\ call_res' = [raised |-> "OSError"]
    /\ UNCHANGED <<call_fn, call_args, score_vars, input_vars, run_vars, walk_vars,
                   classify_vars, app_vars>>

ProgressNext == Call_write_progress \/ Call_write_progress_raises

SpecProgress == ProgressInit /\ [][ProgressNext]_vars

\* The configuration loader: load_rules_config of ae_finder/config_loader.py on
\* one path, with what the file system and the installation hold.

\* The names of the configuration files (their last path component).
ConfigNames ==
    {<<"r", "u", "l", "e", "s", ".", "j", "s", "o", "n">>,
     <<"r", "u", "l", "e", "s", ".", "J", "S", "O", "N">>,
     <<"r", "u", "l", "e", "s", ".", "J", "s", "o", "n">>,
     <<"r", "u", "l", "e", "s", ".", "y", "m", "l">>,
     <<"r", "u", "l", "e", "s", ".", "Y", "A", "M", "L">>,
     <<"r", "u", "l", "e", "s", ".", "Y", "m", "l">>,
     <<"r", "u", "l", "e", "s", ".", "t", "x", "t">>,
     <<"r", "u", "l", "e", "s">>,
     <<".", "j", "s", "o", "n">>,
     <<"r", "u", "l", "e", "s", ".", "j", "s", "o", "n", ".", "b", "a", "k">>}

\* What is at the path: nothing; a directory; a file whose bytes are not UTF-8;
\* a file of text that is a document of its format or is not.
ConfigFiles ==
    {[name |-> n, exists |-> FALSE, is_dir |-> FALSE, utf8 |-> FALSE, well_formed |-> FALSE] :
        n \in ConfigNames}
    \cup {[name |-> n, exists |-> TRUE, is_dir |-> TRUE, utf8 |-> FALSE, well_formed |-> FALSE] :
             n \in ConfigNames}
    \cup {[name |-> n, exists |-> TRUE, is_dir |-> FALSE, utf8 |-> FALSE, well_formed |-> FALSE] :
             n \in ConfigNames}
    \cup {[name |-> n, exists |-> TRUE, is_dir |-> FALSE, utf8 |-> TRUE, well_formed |-> w] :
             n \in ConfigNames, w \in BOOLEAN}

\* pathlib's Path.suffix of a name: from the last dot, unless the dot is the
\* first or the last character.
path_suffix(name) ==
    LET i == LastIndex(name, ".")
    IN  IF 1 < i /\ i < Len(name) THEN SubSeq(name, i, Len(name)) ELSE <<>>

Raised(exc) == [outcome |-> "raised", value |-> exc]

Returned(v) == [outcome |-> "returned", value |-> v]

\* The document json.loads or yaml.safe_load gives for the text of the file.
DocumentOf(f) == <<"document", f.name>>

\* load_rules_config, config_loader.py lines 24-46: the test of existence, the
\* suffix, read_text (which raises on a directory and on bytes that are not
\* UTF-8) and then the choice by suffix.
load_rules_config(f, yaml_found) ==
    LET suffix == LowerStr(path_suffix(f.name))
    IN  IF ~ f.exists THEN Raised("FileNotFoundError")
        ELSE IF f.is_dir THEN Raised("IsADirectoryError")
        ELSE IF ~ f.utf8 THEN Raised("UnicodeDecodeError")
        ELSE IF suffix = <<".", "j", "s", "o", "n">>
             THEN IF f.well_formed THEN Returned(DocumentOf(f))
                  ELSE Raised("JSONDecodeError")
        ELSE IF suffix \in {<<".", "y", "m", "l">>, <<".", "y", "a", "m", "l">>}
             THEN IF ~ yaml_found THEN Raised("ModuleNotFoundError")
                  ELSE IF f.well_formed THEN Returned(DocumentOf(f))
                  ELSE Raised("YAMLError")
        ELSE Raised("UnsupportedConfigFormatError")

ConfigInit ==
    /\ ScoreIdle
    /\ DriverIdle
    /\ WalkIdle
    /\ ClassifyIdle
    /\ AppIdle
    /\ call_fn = "load_rules_config"
    /\ call_args \in [file : ConfigFiles, yaml_found : BOOLEAN]
    /\ call_res = <<>>

Call_load_rules_config ==
    /\ call_fn = "load_rules_config"
    /\ call_res = <<>>
    /\ call_res' = load_rules_config(call_args.file, call_args.yaml_found)
    /\ UNCHANGED <<call_fn, call_args, score_vars, input_vars, run_vars, walk_vars,
                   classify_vars, app_vars>>

ConfigNext == Call_load_rules_config

SpecConfig == ConfigInit /\ [][ConfigNext]_vars

\* The provenance scorer: ProvenanceScorer._score_email of ae_finder/provenance.py
\* on one scorer and one mapping of headers.  A header value is given by the
\* addresses getaddresses finds in it, in their order.

MaxHeaders == 3

\* EMAIL_HEADER_PRECEDENCE: the lowercased key and the name that is displayed
EMAIL_HEADER_PRECEDENCE ==
    <<[key |-> <<"f", "r", "o", "m">>, display |-> "From"],
      [key |-> <<"s", "e", "n", "d", "e", "r">>, display |-> "Sender"],
      [key |-> <<"r", "e", "p", "l", "y", "-", "t", "o">>, display |-> "Reply-To"]>>

\* the other keys that are read as Reply-To, in the order they are tried
ReplyToAliases == <<<<"r", "e", "p", "l", "y", "_", "t", "o">>, <<"r", "e", "p", "l", "y", "t", "o">>>>

HeaderKeys ==
    {<<"F", "r", "o", "m">>,
     <<"F", "R", "O", "M">>,
     <<"S", "e", "n", "d", "e", "r">>,
     <<"R", "e", "p", "l", "y", "-", "T", "o">>,
     <<"r", "e", "p", "l", "y", "_", "t", "o">>,
     <<"R", "e", "p", "l", "y", "T", "o">>,
     <<"T", "o">>}

AddrTarget == <<"p", "@", "x">>

AddrTargetUpper == <<"P", "@", "X">>

AddrOther == <<"o", "@", "x">>

HeaderValues == {<<AddrTargetUpper>>, <<AddrOther>>, <<AddrOther, AddrTarget>>}

\* A mapping of headers: its items in the order of the dictionary, keys distinct.
HeaderMappings ==
    {h \in SeqsUpTo([key : HeaderKeys, value : HeaderValues], MaxHeaders) :
        \A i, j \in DOMAIN h : i # j => h[i].key # h[j].key}

\* target_emails as given to the constructor
TargetChoices == {<<>>, <<AddrTarget>>, <<<<" ", "P", "@", "X", " ">>>>, <<<<>>, <<" ">>>>}

EmailScoreChoices == {1, 2}

\* _normalize_email: address.strip().lower()
normalize_email(address) == LowerStr(Strip(address))

\* ProvenanceScorer.__init__, lines 17-22: the normalised non-empty targets
target_emails_of(given) ==
    {normalize_email(given[i]) : i \in {k \in DOMAIN given : given[k] # <<>>}}

\* _normalize_headers, line 30: the keys lowercased; of two keys that differ in
\* case only, the later item of the mapping replaces the earlier.
normalize_headers(headers) ==
    LET keys == {LowerStr(headers[i].key) : i \in DOMAIN headers}
    IN  [k \in keys |->
            headers[CHOOSE i \in DOMAIN headers :
                       /\ LowerStr(headers[i].key) = k
                       /\ \A j \in DOMAIN headers :
                              LowerStr(headers[j].key) = k => j <= i].value]

\* The addresses of the values, value after value.
RECURSIVE addresses_of(_, _, _)
addresses_of(normalized_headers, values, i) ==
    IF i > Len(values) THEN <<>>
    ELSE (IF values[i] \in DOMAIN normalized_headers
          THEN normalized_headers[values[i]] ELSE <<>>)
         \o addresses_of(normalized_headers, values, i + 1)

NoNote == <<>>

\* lines 45-64 from the header at position k of the precedence on: the first
\* address of a candidate value that is a target ends the search.
RECURSIVE score_from(_, _, _, _)
score_from(targets, email_score, normalized_headers, k) ==
    IF k > Len(EMAIL_HEADER_PRECEDENCE) THEN [score |-> 0, note |-> NoNote]
    ELSE
        LET header_key == EMAIL_HEADER_PRECEDENCE[k].key
            keys_read == (IF header_key \in DOMAIN normalized_headers
                          THEN <<header_key>> ELSE <<>>)
                         \o (IF k = 3
                             THEN SelectSeq(ReplyToAliases,
                                            LAMBDA a : a \in DOMAIN normalized_headers)
                             ELSE <<>>)
            addrs == addresses_of(normalized_headers, keys_read, 1)
            hits == SelectSeq(addrs, LAMBDA a : normalize_email(a) # <<>>
                                                /\ normalize_email(a) \in targets)
        IN  IF hits # <<>>
            THEN [score |-> email_score,
                  note |-> [header |-> EMAIL_HEADER_PRECEDENCE[k].display,
                            address |-> normalize_email(hits[1])]]
            ELSE score_from(targets, email_score, normalized_headers, k + 1)

\* _score_email, lines 32-64
score_email(targets, email_score, headers) ==
    IF targets = {} \/ headers = <<>>
    THEN [score |-> 0, note |-> NoNote]
    ELSE score_from(targets, email_score, normalize_headers(headers), 1)

EmailInit ==
    /\ ScoreIdle
    /\ DriverIdle
    /\ WalkIdle
    /\ ClassifyIdle
    /\ AppIdle
    /\ call_fn = "_score_email"
    /\ call_args \in [target_emails : TargetChoices, email_score : EmailScoreChoices,
                       headers : HeaderMappings]
    /\ call_res = <<>>

Call_score_email ==
    /\ call_fn = "_score_email"
    /\ call_res = <<>>
    /\ call_res' = score_email(target_emails_of(call_args.target_emails),
                               call_args.email_score, call_args.headers)
    /\ UNCHANGED <<call_fn, call_args, score_vars, input_vars, run_vars, walk_vars,
                   classify_vars, app_vars>>

EmailNext == Call_score_email

SpecEmail == EmailInit /\ [][EmailNext]_vars

----------------------------------------------------------------------------
\* The desktop app (evidence_finder_app.py): the UI thread runs start_scan and
\* stop_scan, every scan has a worker thread that runs _run_scan, and the
\* attributes scanning, current_scan_process and scan_thread are shared by all
\* of them without a lock.

\* how many times a scan is started
MaxScans == 2

Alive == "alive"
Exited == "exited"

LiveProcesses == {p \in DOMAIN procs : procs[p] = Alive}

\* __init__, lines 36-38, with folders and years selected
AppInit ==
    /\ ScoreIdle
    /\ DriverIdle
    /\ WalkIdle
    /\ ClassifyIdle
    /\ CallIdle
    /\ scanning = FALSE
    /\ current_scan_process = None
    /\ scan_thread = None
    /\ threads = <<>>
    /\ procs = <<>>
    /\ ui = "ready"
    /\ ui_process = None

app_others == <<score_vars, input_vars, run_vars, walk_vars, classify_vars, call_vars>>

\* A worker thread: where it is in _run_scan, the subprocess its Popen
\* returned (child), the subprocess whose output it reads (reads) and the
\* subprocess in whose wait() it is (waits).
NewThread == [pc |-> "created", child |-> None, reads |-> None, waits |-> None]

\* start_scan, lines 226-240: nothing when a scan is on (line 227); otherwise
\* the folders, the years and the mode are read.
start_scan ==
    /\ ui = "ready"
    /\ Len(threads) < MaxScans
    /\ ~ scanning
    /\ ui' = "start_scan_flag"
    /\ UNCHANGED <<scanning, current_scan_process, scan_thread, threads, procs, ui_process, app_others>>

\* start_scan, lines 242-248: the flag is set, and the UI thread goes through
\* its Tk calls.
start_scan_flag ==
    /\ ui = "start_scan_flag"
    /\ scanning' = TRUE
    /\ ui' = "start_scan_thread"
    /\ UNCHANGED <<current_scan_process, scan_thread, threads, procs, ui_process, app_others>>

\* start_scan, lines 250-254: the worker thread is created and stored in
\* self.scan_thread.
start_scan_thread ==
    /\ ui = "start_scan_thread"
    /\ threads' = Append(threads, NewThread)
    /\ scan_thread' = Len(threads) + 1
    /\ ui' = "start_scan_start"
    /\ UNCHANGED <<scanning, current_scan_process, procs, ui_process, app_others>>

\* start_scan, line 255: self.scan_thread.start() reads the attribute again; on
\* None the call raises and the thread is never started.
start_scan_start ==
    /\ ui = "start_scan_start"
    /\ threads' = IF scan_thread = None THEN threads
                  ELSE [threads EXCEPT ![scan_thread].pc = "popen"]
    /\ ui' = "ready"
    /\ UNCHANGED <<scanning, current_scan_process, scan_thread, procs, ui_process, app_others>>

\* _run_scan, lines 296-303: Popen starts the subprocess; it exists before the
\* worker has stored it.
run_scan_popen(t) ==
    /\ threads[t].pc = "popen"
    /\ procs' = Append(procs, Alive)
    /\ threads' = [threads EXCEPT ![t].pc = "store", ![t].child = Len(procs) + 1]
    /\ UNCHANGED <<scanning, current_scan_process, scan_thread, ui, ui_process, app_others>>

\* _run_scan, lines 304-307: Popen raises; the worker logs it and calls
\* _finish_scan.
run_scan_popen_fails(t) ==
    /\ threads[t].pc = "popen"
    /\ threads' = [threads EXCEPT ![t].pc = "finish_scanning"]
    /\ UNCHANGED <<scanning, current_scan_process, scan_thread, procs, ui, ui_process, app_others>>

\* _run_scan, line 296: the worker stores what Popen returned in
\* self.current_scan_process.
run_scan_store(t) ==
    /\ threads[t].pc = "store"
    /\ current_scan_process' = threads[t].child
    /\ threads' = [threads EXCEPT ![t].pc = "assert"]
    /\ UNCHANGED <<scanning, scan_thread, procs, ui, ui_process, app_others>>

\* _run_scan, line 309: the assert reads self.current_scan_process.stdout; on
\* None the attribute access raises and the thread ends with the exception.
run_scan_assert(t) ==
    /\ threads[t].pc = "assert"
    /\ threads' = [threads EXCEPT ![t].pc = IF current_scan_process = None THEN "raised"
                                            ELSE "stdout"]
    /\ UNCHANGED <<scanning, current_scan_process, scan_thread, procs, ui, ui_process, app_others>>

\* _run_scan, line 311: the worker reads self.current_scan_process again to
\* get the stream it iterates over (None: the thread ends with the exception).
run_scan_stdout(t) ==
    /\ threads[t].pc = "stdout"
    /\ threads' = IF current_scan_process = None
                  THEN [threads EXCEPT ![t].pc = "raised"]
                  ELSE [threads EXCEPT ![t].pc = "reading",
                                       ![t].reads = current_scan_process]
    /\ UNCHANGED <<scanning, current_scan_process, scan_thread, procs, ui, ui_process, app_others>>

\* The subprocess ends: by itself, or at a signal it was sent.
process_exits(p) ==
    /\ procs[p] = Alive
    /\ procs' = [procs EXCEPT ![p] = Exited]
    /\ UNCHANGED <<scanning, current_scan_process, scan_thread, threads, ui, ui_process, app_others>>

\* _run_scan, lines 311-314: the loop over the lines ends at the end of the
\* stream, which the subprocess closes before it has ended for poll() and
\* wait().
run_scan_eof(t) ==
    /\ threads[t].pc = "reading"
    /\ threads' = [threads EXCEPT ![t].pc = "wait"]
    /\ UNCHANGED <<scanning, current_scan_process, scan_thread, procs, ui, ui_process, app_others>>

\* _run_scan, line 316: self.current_scan_process.wait() reads the attribute
\* once more (None: the thread ends with the exception) and the worker blocks
\* in the wait() of that subprocess.
run_scan_wait(t) ==
    /\ threads[t].pc = "wait"
    /\ threads' = IF current_scan_process = None
                  THEN [threads EXCEPT ![t].pc = "raised"]
                  ELSE [threads EXCEPT ![t].pc = "waiting",
                                       ![t].waits = current_scan_process]
    /\ UNCHANGED <<scanning, current_scan_process, scan_thread, procs, ui, ui_process, app_others>>

\* _run_scan, lines 316-320: wait() returns when the subprocess it was called
\* on has ended, whatever the attribute holds by then; the worker logs the
\* return code and goes on to _finish_scan.
run_scan_wait_returns(t) ==
    /\ threads[t].pc = "waiting"
    /\ procs[threads[t].waits] = Exited
    /\ threads' = [threads EXCEPT ![t].pc = "finish_scanning"]
    /\ UNCHANGED <<scanning, current_scan_process, scan_thread, procs, ui, ui_process, app_others>>

\* _finish_scan called by the worker (lines 306 and 321), one assignment of
\* lines 336-338 at a time.
run_scan_finish_scan(t) ==
    /\ threads[t].pc \in {"finish_scanning", "finish_process", "finish_thread"}
    /\ IF threads[t].pc = "finish_scanning"
       THEN /\ scanning' = FALSE
            /\ threads' = [threads EXCEPT ![t].pc = "finish_process"]
            /\ UNCHANGED <<current_scan_process, scan_thread>>
       ELSE IF threads[t].pc = "finish_process"
       THEN /\ current_scan_process' = None
            /\ threads' = [threads EXCEPT ![t].pc = "finish_thread"]
            /\ UNCHANGED <<scanning, scan_thread>>
       ELSE /\ scan_thread' = None
            /\ threads' = [threads EXCEPT ![t].pc = "returned"]
            /\ UNCHANGED <<scanning, current_scan_process>>
    /\ UNCHANGED <<procs, ui, ui_process, app_others>>

\* stop_scan, lines 323-325: nothing when no scan is on.
stop_scan ==
    /\ ui = "ready"
    /\ scanning
    /\ ui' = "stop_scan_test"
    /\ UNCHANGED <<scanning, current_scan_process, scan_thread, threads, procs, ui_process, app_others>>

\* stop_scan, line 326, left operand: self.current_scan_process is read; with
\* no subprocess stored the UI thread goes on to _finish_scan.
stop_scan_test ==
    /\ ui = "stop_scan_test"
    /\ ui' = IF current_scan_process = None THEN "finish_scanning" ELSE "stop_scan_poll"
    /\ UNCHANGED <<scanning, current_scan_process, scan_thread, threads, procs, ui_process, app_others>>

\* stop_scan, line 326, right operand: self.current_scan_process is read again
\* (None: the call raises and stop_scan ends there) and poll() is called on
\* the object read.
stop_scan_poll ==
    /\ ui = "stop_scan_poll"
    /\ IF current_scan_process = None
       THEN ui' = "ready" /\ ui_process' = ui_process
       ELSE ui' = "stop_scan_polling" /\ ui_process' = current_scan_process
    /\ UNCHANGED <<scanning, current_scan_process, scan_thread, threads, procs, app_others>>

\* a worker is in the wait() of subprocess p: Popen.wait holds the waitpid lock
\* of the object until it returns
InWait(p) == \E t \in DOMAIN threads : threads[t].pc = "waiting" /\ threads[t].waits = p

\* stop_scan, line 326: poll() returns, whatever the attribute holds by then:
\* None for a subprocess that is alive, and also for one that has ended while
\* a worker holds the waitpid lock in its wait() (Popen._internal_poll gives
\* None when it cannot take the lock); the return code otherwise.
stop_scan_poll_returns ==
    /\ ui = "stop_scan_polling"
    /\ ui' \in IF procs[ui_process] = Alive THEN {"stop_scan_terminate"}
               ELSE IF InWait(ui_process) THEN {"stop_scan_terminate", "finish_scanning"}
               ELSE {"finish_scanning"}
    /\ ui_process' = None
    /\ UNCHANGED <<scanning, current_scan_process, scan_thread, threads, procs, app_others>>

\* stop_scan, lines 327-328: self.current_scan_process.terminate() reads the
\* attribute again (None: the call raises) and sends SIGTERM; the subprocess
\* ends afterwards, at a time of its own.
stop_scan_terminate ==
    /\ ui = "stop_scan_terminate"
    /\ ui' = IF current_scan_process = None THEN "ready" ELSE "stop_scan_wait"
    /\ UNCHANGED <<scanning, current_scan_process, scan_thread, threads, procs, ui_process, app_others>>

\* stop_scan, line 330: self.current_scan_process.wait(timeout=5) reads the
\* attribute again (None: the call raises) and the UI thread blocks in the
\* wait of that subprocess.
stop_scan_wait ==
    /\ ui = "stop_scan_wait"
    /\ IF current_scan_process = None
       THEN ui' = "ready" /\ ui_process' = ui_process
       ELSE ui' = "stop_scan_waiting" /\ ui_process' = current_scan_process
    /\ UNCHANGED <<scanning, current_scan_process, scan_thread, threads, procs, app_others>>

\* stop_scan, line 330: the wait returns within the 5 seconds: the subprocess it
\* was called on has ended.
stop_scan_wait_returns ==
    /\ ui = "stop_scan_waiting"
    /\ procs[ui_process] = Exited
    /\ ui' = "finish_scanning"
    /\ ui_process' = None
    /\ UNCHANGED <<scanning, current_scan_process, scan_thread, threads, procs, app_others>>

\* stop_scan, line 331: the wait raises TimeoutExpired after the 5 seconds: the
\* subprocess is still alive, or it has ended and a worker has held the waitpid
\* lock in its own wait() all that time (Popen._wait with a timeout only tries
\* the lock, and sleeps when it is taken).
stop_scan_wait_times_out ==
    /\ ui = "stop_scan_waiting"
    /\ procs[ui_process] = Alive \/ InWait(ui_process)
    /\ ui' = "stop_scan_kill"
    /\ ui_process' = None
    /\ UNCHANGED <<scanning, current_scan_process, scan_thread, threads, procs, app_others>>

\* stop_scan, line 332: self.current_scan_process.kill() reads the attribute
\* again (None: the call raises) and sends SIGKILL; stop_scan does not wait
\* for the subprocess to end.
stop_scan_kill ==
    /\ ui = "stop_scan_kill"
    /\ ui' = IF current_scan_process = None THEN "ready" ELSE "finish_scanning"
    /\ UNCHANGED <<scanning, current_scan_process, scan_thread, threads, procs, ui_process, app_others>>

\* _finish_scan called by stop_scan (line 333), one assignment of lines
\* 336-338 at a time.
stop_scan_finish_scan ==
    /\ ui \in {"finish_scanning", "finish_process", "finish_thread"}
    /\ IF ui = "finish_scanning"
       THEN /\ scanning' = FALSE
            /\ ui' = "finish_process"
            /\ UNCHANGED <<current_scan_process, scan_thread>>
       ELSE IF ui = "finish_process"
       THEN /\ current_scan_process' = None
            /\ ui' = "finish_thread"
            /\ UNCHANGED <<scanning, scan_thread>>
       ELSE /\ scan_thread' = None
            /\ ui' = "ready"
            /\ UNCHANGED <<scanning, current_scan_process>>
    /\ UNCHANGED <<threads, procs, ui_process, app_others>>

AppNext ==
    \/ start_scan
    \/ start_scan_flag
    \/ start_scan_thread
    \/ start_scan_start
    \/ stop_scan
    \/ stop_scan_test
    \/ stop_scan_poll
    \/ stop_scan_poll_returns
    \/ stop_scan_terminate
    \/ stop_scan_wait
    \/ stop_scan_wait_returns
    \/ stop_scan_wait_times_out
    \/ stop_scan_kill
    \/ stop_scan_finish_scan
    \/ \E t \in DOMAIN threads : run_scan_popen(t)
    \/ \E t \in DOMAIN threads : run_scan_popen_fails(t)
    \/ \E t \in DOMAIN threads : run_scan_store(t)
    \/ \E t \in DOMAIN threads : run_scan_assert(t)
    \/ \E t \in DOMAIN threads : run_scan_stdout(t)
    \/ \E t \in DOMAIN threads : run_scan_eof(t)
    \/ \E t \in DOMAIN threads : run_scan_wait(t)
    \/ \E t \in DOMAIN threads : run_scan_wait_returns(t)
    \/ \E t \in DOMAIN threads : run_scan_finish_scan(t)
    \/ \E p \in DOMAIN procs : process_exits(p)

SpecApp == AppInit /\ [][AppNext]_vars

----------------------------------------------------------------------------
\* The two drivers on the same rule document and the same candidate file.

\* The columns of the rows that identify an EvidenceRow and its score.
EvidenceRows(rs) ==
    {[path |-> rs[k].path, category |-> rs[k].category,
      subcategory |-> rs[k].subcategory, hits |-> rs[k].hits, score |-> rs[k].score] :
        k \in DOMAIN rs}

NotRun == [ran |-> FALSE, raised |-> FALSE, rows |-> {}]

\* scan.py on the rule document c and the file f: the compilation of scan.py
\* raises IndentationError (lines 282-338 stand at column 0, line 339 is
\* indented), whatever the rule document and the file: no row.
scan_py_rows(c, f) == [ran |-> TRUE, raised |-> TRUE, rows |-> {}]

\* scan_optimized.py: the rule file is opened and parsed (lines 410-424), the
\* file is in one bucket of Pass 1 and every bucket is selected, then
\* _compile_rules and the body of the Pass 2 loop for the file (lines 226-301).
scan_optimized_py_rows(c, f) ==
    LET r == TwoPass_compile_rules(c.categories)
    IN  IF ~ c.readable \/ ~ r.ok THEN [ran |-> TRUE, raised |-> TRUE, rows |-> {}]
        ELSE [ran |-> TRUE, raised |-> FALSE,
              rows |-> EvidenceRows(TwoPass_scan_file(f, c, r.compiled).rows)]

DriversInit ==
    /\ ScoreIdle
    /\ DriverIdle
    /\ WalkIdle
    /\ ClassifyIdle
    /\ AppIdle
    /\ call_fn = "drivers"
    /\ call_args \in [cfg : Configs, file : FileUniverse]
    /\ call_res = [single |-> NotRun, twopass |-> NotRun]

Call_scan_py ==
    /\ call_fn = "drivers"
    /\ ~ call_res.single.ran
    /\ call_res' = [call_res EXCEPT !.single = scan_py_rows(call_args.cfg, call_args.file)]
    /\ UNCHANGED <<call_fn, call_args, score_vars, input_vars, run_vars, walk_vars,
                   classify_vars, app_vars>>

Call_scan_optimized_py ==
    /\ call_fn = "drivers"
    /\ ~ call_res.twopass.ran
    /\ call_res' = [call_res EXCEPT
                       !.twopass = scan_optimized_py_rows(call_args.cfg, call_args.file)]
    /\ UNCHANGED <<call_fn, call_args, score_vars, input_vars, run_vars, walk_vars,
                   classify_vars, app_vars>>

DriversNext == Call_scan_py \/ Call_scan_optimized_py

SpecDrivers == DriversInit /\ [][DriversNext]_vars

\* The walk specification.

WalkInit ==
    /\ ScoreIdle
    /\ DriverIdle
    /\ ClassifyIdle
    /\ CallIdle
    /\ AppIdle
    /\ w_fn \in {"walk_files", "walk_directories"}
    /\ w_roots \in RootChoices
    /\ w_exclude \in ExcludeChoices
    /\ w_exts \in ExtChoices
    /\ w_args \in [modified_since : DateChoices, modified_until : DateChoices,
                   max_bytes : MaxBytesChoices]
    /\ w_pc = "start"
    /\ w_pending = <<>>
    /\ w_visited = {}
    /\ w_yielded = <<>>
    /\ w_listing = <<>>

\* The call: os.walk starts at the first root.
WalkStart ==
    /\ w_pc = "start"
    /\ w_pending' = w_roots
    /\ w_pc' = "walking"
    /\ UNCHANGED <<w_fn, w_roots, w_exclude, w_exts, w_args, w_visited, w_yielded, w_listing,
                   score_vars, input_vars, run_vars, classify_vars, call_vars, app_vars>>

\* The paths of the files of directory d that pass, in the order of the listing.
yielded_of(d, fs) == [k \in 1..Len(fs) |-> Append(d, fs[k].name)]

\* scan.py walk_files lines 95-97: os.walk gives the next directory, top down:
\* its dirnames are pruned, so that the directories that are left are walked
\* next, before the directories that were pending, and the loop over its
\* filenames begins.
WalkFilesDir ==
    /\ w_fn = "walk_files"
    /\ w_pc = "walking"
    /\ w_listing = <<>>
    /\ w_pending # <<>>
    /\ LET d == Head(w_pending)
           kept == pruned(WalkTree[d].dirnames, w_exclude)
       IN  /\ w_visited' = w_visited \cup {d}
           /\ w_pending' = [k \in 1..Len(kept) |-> Append(d, kept[k])] \o Tail(w_pending)
           /\ w_listing' = IF WalkTree[d].files = <<>> THEN <<>> ELSE [dir |-> d, next |-> 1]
    /\ UNCHANGED <<w_fn, w_roots, w_exclude, w_exts, w_args, w_pc, w_yielded,
                   score_vars, input_vars, run_vars, classify_vars, call_vars, app_vars>>

\* scan.py walk_files lines 97-113: one filename of the directory: it is
\* skipped (continue) or its path is yielded, and the generator gives control
\* back to its consumer at the yield.
WalkFilesFile ==
    /\ w_fn = "walk_files"
    /\ w_pc = "walking"
    /\ w_listing # <<>>
    /\ LET d == w_listing.dir
           f == WalkTree[d].files[w_listing.next]
       IN  /\ w_yielded' =
                 IF walk_files_yields(f, w_exts, to_epoch(w_args.modified_since),
                                      to_epoch(w_args.modified_until), w_args.max_bytes)
                 THEN Append(w_yielded, Append(d, f.name))
                 ELSE w_yielded
           /\ w_listing' = IF w_listing.next = Len(WalkTree[d].files) THEN <<>>
                            ELSE [w_listing EXCEPT !.next = @ + 1]
    /\ UNCHANGED <<w_fn, w_roots, w_exclude, w_exts, w_args, w_pc, w_pending, w_visited,
                   score_vars, input_vars, run_vars, classify_vars, call_vars, app_vars>>

\* scan_optimized.py walk_directories lines 352-380: one directory of os.walk.
WalkDirectoriesDir ==
    /\ w_fn = "walk_directories"
    /\ w_pc = "walking"
    /\ w_pending # <<>>
    /\ LET d == Head(w_pending)
           kept == TwoPass_pruned(WalkTree[d].dirnames, w_exclude)
           passes(f) == walk_directories_yields(f, w_exts, to_epoch(w_args.modified_since),
                                                to_epoch(w_args.modified_until),
                                                w_args.max_bytes)
       IN  /\ w_visited' = w_visited \cup {d}
           /\ w_yielded' = w_yielded \o yielded_of(d, SelectSeq(WalkTree[d].files, passes))
           /\ w_pending' = [k \in 1..Len(kept) |-> Append(d, kept[k])] \o Tail(w_pending)
    /\ UNCHANGED <<w_fn, w_roots, w_exclude, w_exts, w_args, w_pc, w_listing,
                   score_vars, input_vars, run_vars, classify_vars, call_vars, app_vars>>

\* The generator is exhausted / the list is returned.
WalkEnd ==
    /\ w_pc = "walking"
    /\ w_pending = <<>>
    /\ w_listing = <<>>
    /\ w_pc' = "walked"
    /\ UNCHANGED <<w_fn, w_roots, w_exclude, w_exts, w_args, w_pending, w_visited,
                   w_yielded, w_listing, score_vars, input_vars, run_vars, classify_vars, call_vars, app_vars>>

WalkNext == WalkStart \/ WalkFilesDir \/ WalkFilesFile \/ WalkDirectoriesDir \/ WalkEnd

SpecWalk == WalkInit /\ [][WalkNext]_vars

----------------------------------------------------------------------------
\* The drivers: scan.py main (driver "single") and scan_optimized.py main with
\* TwoPassScanner (driver "twopass").  This model's runs take their files from a
\* path list (--path-list); include_dirs is empty.  scan.py as it is in the
\* repository does not compile (lines 282-338 are at column 0 and line 339 is
\* indented), so a single-pass run ends in the IndentationError before its
\* first statement.

NoProgress == [stage |-> "none", processed |-> 0, total |-> 0]

NoStats == [nonempty |-> 0, empty |-> 0, matched |-> 0]

NoBuckets == [c \in {"teaching", "service", "scholarship", "misc"} |-> <<>>]

\* pass1_categorized.json has not been written.
NotWritten == <<>>

Init ==
    /\ ScoreIdle
    /\ WalkIdle
    /\ ClassifyIdle
    /\ CallIdle
    /\ AppIdle
    /\ driver \in {"single", "twopass"}
    /\ cfg \in Configs
    /\ path_list \in PathLists(MaxFiles, driver = "single")
    /\ args \in IF driver = "single" THEN ArgChoices ELSE TwoPassArgChoices
    /\ now \in NowChoices
    /\ IF driver = "single"
       THEN /\ ics_paths \in SUBSET IcsUniverse
            /\ mbox_paths \in SUBSET MboxUniverse
            /\ categories_to_process = <<"teaching", "service", "scholarship">>
            /\ pass1_only = FALSE
       ELSE /\ ics_paths = {}
            /\ mbox_paths = {}
            /\ categories_to_process \in CategoryChoices
            /\ pass1_only \in BOOLEAN
    /\ pc = "start"
    /\ compiled = <<>>
    /\ files_to_scan = <<>>
    /\ idx = 0
    /\ rows = <<>>
    /\ stats = NoStats
    /\ outputs = {}
    /\ progress = NoProgress
    /\ progress_log = <<>>
    /\ categorized = NoBuckets
    /\ pass1_json = NotWritten
    /\ reported = <<>>
    /\ enumerated = FALSE
    /\ run = 1
    /\ prev_reported = <<>>

Count(st, counted) ==
    [nonempty |-> st.nonempty + (IF counted \in {"nonempty", "matched"} THEN 1 ELSE 0),
     empty |-> st.empty + (IF counted = "empty" THEN 1 ELSE 0),
     matched |-> st.matched + (IF counted = "matched" THEN 1 ELSE 0)]

\* python3 scan.py: the interpreter compiles the file before it runs a line of
\* it.  Lines 282-338, the rest of the body of the processing loop of line 269,
\* stand at column 0 and line 339 is indented again: the compilation raises
\* IndentationError (unexpected indent, line 339).  No function of the file is
\* defined, main is not called, nothing is read and nothing is written.
SP_Compile ==
    /\ driver = "single"
    /\ pc = "start"
    /\ pc' = "syntax_error"
    /\ UNCHANGED <<input_vars, score_vars, walk_vars, classify_vars, call_vars, app_vars, compiled, files_to_scan, idx, rows, stats,
                   outputs, progress, progress_log, categorized, pass1_json, reported, enumerated, run,
                   prev_reported>>

\* scan_optimized.py lines 410-424: TwoPassScanner(args.rules) and main open and
\* parse the rule file; no pattern is compiled here.
TP_Init ==
    /\ driver = "twopass"
    /\ pc = "start"
    /\ pc' = IF cfg.readable THEN "load_paths" ELSE "failed"
    /\ UNCHANGED <<input_vars, score_vars, walk_vars, classify_vars, call_vars, app_vars, compiled, files_to_scan, idx, rows, stats,
                   outputs, progress, progress_log, categorized, pass1_json, reported, enumerated, run,
                   prev_reported>>

\* scan_optimized.py lines 426-446: the path list is loaded as it is; with no
\* path the run ends.
TP_LoadPaths ==
    /\ driver = "twopass"
    /\ pc = "load_paths"
    /\ files_to_scan' = path_list
    /\ enumerated' = TRUE
    /\ pc' = IF path_list = <<>> THEN "no_files" ELSE "pass1"
    /\ UNCHANGED <<input_vars, score_vars, walk_vars, classify_vars, call_vars, app_vars, compiled, idx, rows, stats, outputs, progress, progress_log,
                   categorized, pass1_json, reported, run, prev_reported>>

\* pass1_metadata_scan, lines 166-185: the analyses of the files from index i on,
\* in the order of the list; a file whose stat fails is counted as an error and
\* has no analysis.
RECURSIVE analyze_all(_, _, _)
analyze_all(fs, i, t) ==
    IF i > Len(fs) THEN <<>>
    ELSE IF fs[i].stat_ok
         THEN <<Pass1Of(fs[i], t)>> \o analyze_all(fs, i + 1, t)
         ELSE analyze_all(fs, i + 1, t)

\* A dump that leaves out the bucket of the unclassified files.
json_dump_without_misc(buckets) ==
    [c \in DOMAIN buckets \ {"misc"} |->
        [k \in 1..Len(buckets[c]) |->
            [path |-> buckets[c][k].path,
             category |-> buckets[c][k].category,
             confidence2 |-> buckets[c][k].confidence2]]]

\* json.dump(categorized, f, indent=2, default=str), line 189: every key of the
\* dictionary with its list of analyses; of an analysis the path, the category
\* and the confidence are kept here.
json_dump(buckets) ==
    [c \in DOMAIN buckets |->
        [k \in 1..Len(buckets[c]) |->
            [path |-> buckets[c][k].path,
             category |-> buckets[c][k].category,
             confidence2 |-> buckets[c][k].confidence2]]]

\* scan_optimized.py lines 452-461: pass1_metadata_scan classifies every path and
\* writes pass1_categorized.json, main writes pass1_summary.json, and with
\* --pass1-only the run ends.
TP_Pass1 ==
    /\ driver = "twopass"
    /\ pc = "pass1"
    /\ \E analyses \in {analyze_all(files_to_scan, 1, now)} :
          categorized' = [c \in DOMAIN NoBuckets |->
                             SelectSeq(analyses, LAMBDA a : a.category = c)]
    /\ pass1_json' = json_dump(categorized')
    /\ outputs' = outputs \cup {"pass1_categorized.json", "pass1_summary.json"}
    /\ pc' = IF pass1_only THEN "pass1_done" ELSE "pass2_start"
    /\ UNCHANGED <<input_vars, score_vars, walk_vars, classify_vars, call_vars, app_vars, compiled, files_to_scan, idx, rows, stats,
                   progress, progress_log, reported, enumerated, run, prev_reported>>

FileOf(path) == CHOOSE f \in Range(path_list) : f.path = path

\* The files of the chosen buckets, bucket after bucket (lines 219-222).
RECURSIVE selected_files(_, _, _)
selected_files(cats, i, buckets) ==
    IF i > Len(cats) THEN <<>>
    ELSE (IF cats[i] \in DOMAIN buckets
          THEN [k \in 1..Len(buckets[cats[i]]) |-> FileOf(buckets[cats[i]][k].path)]
          ELSE <<>>)
         \o selected_files(cats, i + 1, buckets)

\* scan_optimized.py lines 218-244: the files of the chosen buckets, then
\* _compile_rules, which raises on a pattern that does not compile.
TP_Pass2Start ==
    /\ driver = "twopass"
    /\ pc = "pass2_start"
    /\ files_to_scan' = selected_files(categories_to_process, 1, categorized)
    /\ idx' = 0
    /\ LET r == TwoPass_compile_rules(cfg.categories)
       IN  IF r.ok
           THEN compiled' = r.compiled /\ pc' = "pass2"
           ELSE compiled' = compiled /\ pc' = "failed"
    /\ UNCHANGED <<input_vars, score_vars, walk_vars, classify_vars, call_vars, app_vars, rows, stats, outputs, progress, progress_log, categorized, pass1_json,
                   reported, enumerated, run, prev_reported>>

\* scan_optimized.py lines 246-301: one pass of the Pass 2 loop.
TP_ProcessFile ==
    /\ driver = "twopass"
    /\ pc = "pass2"
    /\ idx < Len(files_to_scan)
    /\ LET r == TwoPass_scan_file(files_to_scan[idx + 1], cfg, compiled)
       IN  /\ rows' = rows \o r.rows
           /\ stats' = Count(stats, r.counted)
    /\ idx' = idx + 1
    /\ UNCHANGED <<input_vars, score_vars, walk_vars, classify_vars, call_vars, app_vars, pc, compiled, files_to_scan, outputs, progress, progress_log,
                   categorized, pass1_json, reported, enumerated, run, prev_reported>>

\* scan_optimized.py lines 303-320: with rows, they are sorted and handed to the
\* report writer; with none, nothing is written.
TP_Finish ==
    /\ driver = "twopass"
    /\ pc = "pass2"
    /\ idx = Len(files_to_scan)
    /\ IF rows = <<>>
       THEN /\ pc' = "done_no_matches"
            /\ UNCHANGED <<rows, reported, outputs>>
       ELSE /\ rows' = TwoPass_sort_rows(rows)
            /\ reported' = rows'
            /\ outputs' = outputs \cup {"evidence.csv", "summary.csv", "report.html"}
            /\ pc' = "done"
    /\ UNCHANGED <<input_vars, score_vars, walk_vars, classify_vars, call_vars, app_vars, compiled, files_to_scan, idx, stats, progress, progress_log,
                   categorized, pass1_json, enumerated, run, prev_reported>>

\* The same command is run again on the same inputs; prev_reported keeps what the
\* earlier run handed to the report writer.
Rerun ==
    /\ pc \in {"done", "done_no_matches"}
    /\ run < MaxRuns
    /\ run' = run + 1
    /\ prev_reported' = reported
    /\ pc' = "start"
    /\ compiled' = <<>>
    /\ files_to_scan' = <<>>
    /\ idx' = 0
    /\ rows' = <<>>
    /\ stats' = NoStats
    /\ outputs' = {}
    /\ progress' = NoProgress
    /\ progress_log' = <<>>
    /\ categorized' = NoBuckets
    /\ pass1_json' = NotWritten
    /\ reported' = <<>>
    /\ enumerated' = FALSE
    /\ UNCHANGED <<input_vars, score_vars, walk_vars, classify_vars, call_vars, app_vars>>

Next ==
    \/ SP_Compile
    \/ TP_Init
    \/ TP_LoadPaths
    \/ TP_Pass1
    \/ TP_Pass2Start
    \/ TP_ProcessFile
    \/ TP_Finish
    \/ Rerun

Spec == Init /\ [][Next]_vars

\* One run of the two-pass driver.
TwoPassInit == Init /\ driver = "twopass"

TwoPassNext ==
    \/ TP_Init
    \/ TP_LoadPaths
    \/ TP_Pass1
    \/ TP_Pass2Start
    \/ TP_ProcessFile
    \/ TP_Finish

SpecTwoPass == TwoPassInit /\ [][TwoPassNext]_vars

----------------------------------------------------------------------------
\* The spans of a pattern in a text, stated without the scan: the set S of
\* offsets where the pattern matches such that an offset is in S exactly when
\* no earlier member of S overlaps it.
MatchStarts(pat, text) ==
    LET cand == {i \in 0..Len(text) : MatchAt(pat, text, i)}
    IN  CHOOSE S \in SUBSET cand :
            \A i \in cand :
                i \in S <=> ~ \E j \in S : j < i /\ i < j + Len(pat)

DistinctSpans(pat, text) ==
    {<<i, i + Len(pat)>> : i \in MatchStarts(pat, text)}

RECURSIVE SumSpans(_, _, _)
SumSpans(text, pats, i) ==
    IF i > Len(pats) THEN 0
    ELSE Cardinality(DistinctSpans(pats[i], text)) + SumSpans(text, pats, i + 1)

\* C1 as claimed: for every text, pattern list, perHitPoints and cap the raw
\* score returned by score_text and _score_text equals
\* min(hits * perHitPoints, cap), so it never exceeds cap, and an empty text
\* returns score 0 and hits 0.
C1_ScoreIsCappedProduct_AnyCap ==
    sc_fn # "none" =>
        /\ sc_res.score = Min(sc_res.hits * sc_per_hit, sc_cap)
        /\ sc_res.score <= sc_cap
        /\ (sc_text = <<>> => sc_res = [score |-> 0, hits |-> 0])

\* C1 (amended): an empty text returns score 0 and hits 0 whatever the cap; for
\* every non-empty text, and for every text when the cap is not negative, the
\* raw score equals min(hits * perHitPoints, cap) and never exceeds cap.
C1_ScoreIsCappedProduct ==
    sc_fn # "none" =>
        /\ (sc_text = <<>> => sc_res = [score |-> 0, hits |-> 0])
        /\ (sc_text # <<>> \/ sc_cap >= 0) =>
              /\ sc_res.score = Min(sc_res.hits * sc_per_hit, sc_cap)
              /\ sc_res.score <= sc_cap

\* C1's case: a call where the product of hits and per_hit exceeds the cap.
C1_Witness ==
    /\ sc_fn # "none"
    /\ sc_res.hits * sc_per_hit > sc_cap
    /\ sc_res.score = sc_cap
    /\ sc_cap > 0

\* C4 as claimed: the returned hits equal the sum, over the patterns, of the number
\* of distinct match spans of the pattern in the text, for every text.
C4_HitsAreSpanSum_AnyText ==
    sc_fn # "none" => sc_res.hits = SumSpans(sc_text, sc_pats, 1)

\* C4 (amended): for every non-empty text the returned hits equal the sum, over the
\* patterns, of the number of distinct match spans of the pattern (a span matched by
\* two patterns counts for each); for the empty text hits is 0 whatever the patterns;
\* one pattern matching twice with per_hit 1 and cap 10 (here the model's largest
\* cap, at least 2) gives hits 2 and score 2.
C4_HitsAreSpanSum ==
    sc_fn # "none" =>
        /\ sc_text # <<>> => sc_res.hits = SumSpans(sc_text, sc_pats, 1)
        /\ sc_text = <<>> => sc_res.hits = 0
        /\ (/\ Len(sc_pats) = 1
            /\ Cardinality(DistinctSpans(sc_pats[1], sc_text)) = 2
            /\ sc_text # <<>>
            /\ sc_per_hit = 1
            /\ sc_cap >= 2) => sc_res = [score |-> 2, hits |-> 2]

\* C4's case: two patterns match the same span of a non-empty text and both count.
C4_Witness ==
    /\ sc_fn = "_score_text"
    /\ Len(sc_pats) = 2
    /\ sc_text # <<>>
    /\ DistinctSpans(sc_pats[1], sc_text) \cap DistinctSpans(sc_pats[2], sc_text) # {}
    /\ sc_res.hits = 2

----------------------------------------------------------------------------
\* What the rule file asks of a row.

\* keyword k occurs in text as a case-insensitive literal substring
Occurs(k, text) ==
    \E i \in 0..(Len(text) - Len(k)) :
        \A j \in 1..Len(k) : Lower(text[i + j]) = Lower(k[j])

\* the sum of the points of the bonus keywords that occur in text
BonusDue(text) ==
    SumOver(cfg.bonus_keywords, {k \in DOMAIN cfg.bonus_keywords : Occurs(k, text)})

\* the capped raw score of a row
RawScore(r) == Min(r.hits * cfg.per_hit, cfg.cap)

\* categoryWeight(category), 1 when none is configured
WeightDue(cat) ==
    IF cat \in DOMAIN cfg.category_weights THEN cfg.category_weights[cat] ELSE 1

KeywordsNonEmpty == <<>> \notin DOMAIN cfg.bonus_keywords

\* the files the processing loop has been through
Processed == SubSeq(files_to_scan, 1, idx)

\* the extension of the file's name, lowercased
NameExt(f) == splitext_ext(LowerStr(basename(f.path)))

\* the rows of a file
RowsOf(f) == {i \in 1..Len(rows) : rows[i].source = SRC_FILES /\ rows[i].path = f.path}

\* the run has ended, in whatever way
RunEnded ==
    pc \in {"done", "done_no_matches", "failed", "syntax_error", "no_files", "pass1_done"}

\* the rule file can be read and its patterns compile
RulesLoad == cfg.readable /\ ~ compile_raises(cfg.categories)

\* a single-pass run on rules that load has ended
SinglePassEnded == driver = "single" /\ RunEnded /\ RulesLoad

\* a listed file that the extension, size and date filters keep
Wanted(f) ==
    /\ f.stat_ok
    /\ NameExt(f) \in cfg.include_extensions
    /\ (args.max_bytes \in {None, 0} \/ f.size <= args.max_bytes)
    /\ (args.since_ts \in {None, 0} \/ f.mtime >= args.since_ts)
    /\ (args.until_ts \in {None, 0} \/ f.mtime <= args.until_ts + SecondsPerDay - 1)

\* the text of a file that is to be scored: what is extracted from it, and the
\* lowercased filename for a proprietary-hint extension with nothing extracted
TextDue(f) ==
    IF extract_text(f) = <<>> /\ NameExt(f) \in PROPRIETARY_HINTS
    THEN LowerStr(basename(f.path))
    ELSE extract_text(f)

\* the capped raw score of the rule entry p on a text
RawDue(text, p) ==
    IF cfg.categories[p].has_any
    THEN Min(SumSpans(text, cfg.categories[p].any, 1) * cfg.per_hit, cfg.cap)
    ELSE 0

\* the listed files that are to be scored, and the rule entries that score on them
FilesDue == {f \in Range(path_list) : Wanted(f) /\ ~ IsBlank(TextDue(f))}

EntriesDue(text) == {p \in 1..Len(cfg.categories) : RawDue(text, p) > 0}

\* the rows of the file for the rule entry
RowsFor(f, p) ==
    {i \in RowsOf(f) : /\ rows[i].category = cfg.categories[p].cat
                       /\ rows[i].subcategory = cfg.categories[p].sub}

\* the rows of a calendar or mailbox source for the rule entry
SourceRowsFor(src, p) ==
    {i \in 1..Len(rows) : /\ rows[i].source = src
                          /\ rows[i].category = cfg.categories[p].cat
                          /\ rows[i].subcategory = cfg.categories[p].sub}

\* C2: the stored score of every row, whatever its source, is
\* rawScore * categoryWeight(category) + bonusSum, the weight defaulting to 1
\* (stated for rule files whose bonus keywords are all non-empty); a
\* single-pass run that has ended has such a row for every rule entry that
\* scores on a listed file, on an event of a calendar file and on a message of
\* a mailbox.
C2_StoredScoreIsWeightedRawPlusBonus ==
    KeywordsNonEmpty =>
        /\ \A i \in 1..Len(rows) :
              rows[i].score =
                  RawScore(rows[i]) * WeightDue(rows[i].category) + BonusDue(rows[i].text)
        /\ SinglePassEnded =>
              /\ \A f \in FilesDue : \A p \in EntriesDue(TextDue(f)) :
                    \E i \in RowsFor(f, p) :
                        rows[i].score = RawDue(TextDue(f), p) * WeightDue(cfg.categories[p].cat)
                                            + BonusDue(TextDue(f))
              /\ \A ics \in ics_paths : \A k \in DOMAIN iter_ics(ics) :
                    \A p \in EntriesDue(iter_ics(ics)[k].text) :
                        \E i \in SourceRowsFor(SRC_CALENDAR, p) :
                            rows[i].score =
                                RawDue(iter_ics(ics)[k].text, p)
                                    * WeightDue(cfg.categories[p].cat)
                                + BonusDue(iter_ics(ics)[k].text)
              /\ \A mb \in mbox_paths : \A k \in DOMAIN iter_mbox(mb) :
                    \A p \in EntriesDue(iter_mbox(mb)[k].text) :
                        \E i \in SourceRowsFor(SRC_EMAIL, p) :
                            rows[i].score =
                                RawDue(iter_mbox(mb)[k].text, p)
                                    * WeightDue(cfg.categories[p].cat)
                                + BonusDue(iter_mbox(mb)[k].text)

\* C3: a file yields one row for each (category, subcategory) pair that scores,
\* none for another pair and never two for one pair, and every row handed to
\* the report writer has a score above 0, whatever the weights and bonuses.
C3_OneRowPerPositivePairAndPositiveScores ==
    /\ \A k \in 1..Len(Processed) :
          \A i, j \in RowsOf(Processed[k]) :
              (rows[i].category = rows[j].category
                  /\ rows[i].subcategory = rows[j].subcategory) => i = j
    /\ \A i \in 1..Len(rows) : rows[i].hits > 0
    /\ \A i \in 1..Len(reported) : reported[i].score > 0

\* the part of a row's stored score that is not the weighted raw score
BonusPart(r) == r.score - RawScore(r) * WeightDue(r.category)

\* C5: the bonus of an item depends on its text and the bonus table only: every
\* keyword that occurs in the text (case-insensitively) adds its points once,
\* however often it occurs, and the weight does not multiply it (stated for
\* rule files whose bonus keywords are all non-empty); in a single-pass run that
\* has ended every listed file on which a rule entry scores has a row that
\* carries the bonus of its text.
C5_BonusOncePerOccurringKeyword ==
    KeywordsNonEmpty =>
        /\ \A i \in 1..Len(rows) : BonusPart(rows[i]) = BonusDue(rows[i].text)
        /\ \A i, j \in 1..Len(rows) :
              rows[i].text = rows[j].text => BonusPart(rows[i]) = BonusPart(rows[j])
        /\ SinglePassEnded =>
              \A f \in FilesDue :
                  EntriesDue(TextDue(f)) # {} =>
                      \E i \in RowsOf(f) : BonusPart(rows[i]) = BonusDue(TextDue(f))

\* the pairs whose patterns match text at least once
MatchingPairs(text) ==
    {i \in 1..Len(compiled) :
        \E j \in 1..Len(compiled[i].pats) : Occurs(compiled[i].pats[j], text)}

\* C6: a processed file whose extraction is empty: with a proprietary-hint
\* extension its lowercased filename is scored and it has a row for every pair
\* whose patterns match the filename; with another extension it has no row
\* and is counted as empty.  A single-pass run that has ended has these rows
\* for every listed file of this kind that the filters keep.
C6_EmptyExtractionFallsBackToFilename ==
    /\ SinglePassEnded =>
          \A f \in FilesDue :
              (extract_text(f) = <<>> /\ NameExt(f) \in PROPRIETARY_HINTS) =>
                  \A p \in EntriesDue(TextDue(f)) : RowsFor(f, p) # {}
    /\ \A k \in 1..Len(Processed) :
          LET f == Processed[k]
              name == LowerStr(basename(f.path))
          IN  (f.stat_ok /\ extract_text(f) = <<>>) =>
                  IF NameExt(f) \in PROPRIETARY_HINTS
                  THEN /\ \A i \in RowsOf(f) : rows[i].text = name
                       /\ \A p \in MatchingPairs(name) :
                             (cfg.per_hit > 0 /\ cfg.cap > 0) =>
                                 \E i \in RowsOf(f) :
                                     /\ rows[i].category = compiled[p].cat
                                     /\ rows[i].subcategory = compiled[p].sub
                  ELSE RowsOf(f) = {}
    /\ stats.empty =
          Cardinality({k \in 1..Len(Processed) :
              LET f == Processed[k]
              IN  /\ f.stat_ok
                  /\ IF extract_text(f) = <<>>
                     THEN NameExt(f) \notin PROPRIETARY_HINTS
                     ELSE IsBlank(extract_text(f))})

\* C7: in both drivers the rows handed to the report writer are ordered by
\* (source, -score, category, subcategory, display): no row has a smaller key
\* than the row before it.
C7_ReportedRowsSortedByFullKey ==
    \A i \in 1..(Len(reported) - 1) : ~ KeyLess(reported[i + 1], reported[i], TRUE)

\* the rows of the files from index i on, as Pass 2 appends them
RECURSIVE rows_from(_, _, _)
rows_from(files, i, comp) ==
    IF i > Len(files) THEN <<>>
    ELSE TwoPass_scan_file(files[i], cfg, comp).rows \o rows_from(files, i + 1, comp)

\* what a two-pass run on the listed paths, taken in the given order, hands to
\* the report writer
ReportOf(order) ==
    LET analyses == analyze_all(order, 1, now)
        buckets == [c \in DOMAIN NoBuckets |->
                       SelectSeq(analyses, LAMBDA a : a.category = c)]
        files == selected_files(categories_to_process, 1, buckets)
    IN  TwoPass_sort_rows(
            rows_from(files, 1, TwoPass_compile_rules(cfg.categories).compiled))

\* C8: a second run on the same inputs hands the report writer the same rows in
\* the same order as the first, and the rows and their order do not depend on
\* the order in which the listed paths are enumerated.
C8_SecondRunReportsSameRows ==
    /\ (run > 1 /\ pc \in {"done", "done_no_matches"}) => reported = prev_reported
    /\ (driver = "twopass" /\ pc = "done") =>
          \A order \in Orders(Range(path_list)) : ReportOf(order) = reported

\* C9: a run that a configuration failure ends has enumerated no input,
\* classified no file and written no output file.
C9_ConfigFailureBeforeEnumerationAndOutput ==
    pc = "failed" =>
        /\ ~ enumerated
        /\ categorized = NoBuckets
        /\ outputs = {}

\* C10: a rule file with an entry that has no "any" list is never compiled: the
\* compilation fails.
C10_MissingAnyIsNeverCompiled ==
    (\E i \in 1..Len(cfg.categories) : ~ cfg.categories[i].has_any) => compiled = <<>>

\* C11: with bonus_keywords given as a list of "key:value" strings, the list is
\* normalized to the mapping it stands for (entries without a colon or with a
\* non-numeric value skipped), and every processed file has, for every pair
\* that scores on its text, the row it has under that mapping: none is dropped
\* and the score is raw * weight + bonus.  Single-pass and Pass 2.
C11_LegacyBonusListScoresAsMapping ==
    cfg.bonus_is_list =>
        /\ loaded_bonus(cfg) = cfg.bonus_keywords
        /\ \A k \in 1..Len(Processed) :
              LET f == Processed[k]
                  text == extract_text(f)
              IN  (f.stat_ok /\ ~ IsBlank(text)) =>
                      \A p \in 1..Len(compiled) :
                          LET raw == Min(SumSpans(text, compiled[p].pats, 1) * cfg.per_hit,
                                         cfg.cap)
                          IN  raw > 0 =>
                                  \E i \in RowsOf(f) :
                                      /\ rows[i].category = compiled[p].cat
                                      /\ rows[i].subcategory = compiled[p].sub
                                      /\ rows[i].score =
                                            raw * WeightDue(compiled[p].cat) + BonusDue(text)

Reports == {"evidence.csv", "summary.csv", "report.html"}

\* C12: a run that got past configuration loading and ended has one terminal
\* state: the last progress snapshot says done exactly when rows were produced
\* and the reports written, done_no_matches exactly when no row was produced
\* and no report written; a failed run has neither.  Both drivers.
C12_TerminalSnapshotMatchesRows ==
    /\ pc = "done" =>
          progress.stage = "done" /\ rows # <<>> /\ Reports \subseteq outputs
    /\ pc = "done_no_matches" =>
          progress.stage = "done_no_matches" /\ rows = <<>> /\ Reports \cap outputs = {}
    /\ pc = "failed" => progress.stage \notin {"done", "done_no_matches"}
    /\ (driver # "none" /\ progress.stage \in {"done", "done_no_matches"}) =>
          pc = progress.stage

----------------------------------------------------------------------------
\* What is asked of the walk.

\* a name of the path below its root is an excluded name (the last name of a
\* file's path, the file's own, is not a directory's)
ExcludedBelowRoot(dirpath) == \E i \in 2..Len(dirpath) : dirpath[i] \in w_exclude

DirOf(path) == SubSeq(path, 1, Len(path) - 1)

\* C13: the walk never descends into a directory whose name is in
\* exclude_dirs: no visited or pending directory has an excluded name below its
\* root, and no yielded file lies at any depth beneath such a directory.
C13_NeverDescendsIntoExcluded ==
    /\ \A d \in w_visited \cup Range(w_pending) : ~ ExcludedBelowRoot(d)
    /\ \A i \in 1..Len(w_yielded) : ~ ExcludedBelowRoot(DirOf(w_yielded[i]))

C13_Witness ==
    /\ w_pc = "walked"
    /\ w_exclude # {}
    /\ DirR \in w_visited
    /\ Append(DirR, <<"k", "e", "e", "p">>) \in w_visited
    /\ Append(DirR, <<"s", "k", "i", "p">>) \notin w_visited
    /\ \E i \in 1..Len(w_yielded) : DirOf(w_yielded[i]) = Append(DirR, <<"k", "e", "e", "p">>)

\* the mtime is inside the window of the dates given: from the start of the
\* since date to 23:59:59 of the until date
InWindow(mtime) ==
    /\ w_args.modified_since # None => mtime >= w_args.modified_since * SecondsPerDay
    /\ w_args.modified_until # None =>
           mtime <= w_args.modified_until * SecondsPerDay + (SecondsPerDay - 1)

ExtensionWanted(name) == w_exts = {} \/ splitext_ext(LowerStr(name)) \in w_exts

SizeWanted(size) == w_args.max_bytes = 0 \/ size <= w_args.max_bytes

\* the directories of the tree under a root that are not beneath an excluded one
DirsToWalk ==
    {d \in DOMAIN WalkTree : <<d[1]>> \in Range(w_roots) /\ ~ ExcludedBelowRoot(d)}

\* C14: when the walk has ended, the yielded files are the files under the
\* roots that are not beneath an excluded directory, whose lowercased extension
\* is wanted, whose size is within max_bytes, whose mtime is inside the
\* since/until window and whose stat succeeded; a file whose stat fails is
\* dropped alone.
C14_YieldedAreExactlyTheWantedFiles ==
    w_pc = "walked" =>
        Range(w_yielded) =
            UNION {{Append(d, WalkTree[d].files[k].name) :
                       k \in {k \in 1..Len(WalkTree[d].files) :
                                 LET f == WalkTree[d].files[k]
                                 IN  /\ f.stat_ok
                                     /\ ExtensionWanted(f.name)
                                     /\ SizeWanted(f.size)
                                     /\ InWindow(f.mtime)}} :
                   d \in DirsToWalk}

\* C15: of the files that pass the other filters, a file whose mtime is
\* 23:59:59 of the until date is yielded (when the since date admits it), a
\* file one second later is not, and a file before the start of the since date
\* is not; for every date, the date of epoch 0 included.
C15_DateWindowBoundaries ==
    w_pc = "walked" =>
        \A d \in DirsToWalk : \A k \in 1..Len(WalkTree[d].files) :
            LET f == WalkTree[d].files[k]
                yielded == Append(d, f.name) \in Range(w_yielded)
                since == w_args.modified_since
                until == w_args.modified_until
            IN  (f.stat_ok /\ ExtensionWanted(f.name) /\ SizeWanted(f.size)) =>
                    /\ (until # None /\ f.mtime = until * SecondsPerDay + 86399
                           /\ (since = None \/ f.mtime >= since * SecondsPerDay)) => yielded
                    /\ (until # None /\ f.mtime = until * SecondsPerDay + 86400) => ~ yielded
                    /\ (since # None /\ f.mtime < since * SecondsPerDay) => ~ yielded

\* the walker's filters on a listed file
WalkerSelects(f) ==
    walk_files_yields([name |-> basename(f.path), size |-> f.size, mtime |-> f.mtime,
                       stat_ok |-> f.stat_ok],
                      cfg.include_extensions, args.since_ts, args.until_ts, args.max_bytes)

\* C16: with a path list in the place of the walk, in both drivers, the listed
\* files that go on to classification and scoring are the listed files that
\* pass the walker's extension, size and date filters (of the files whose stat
\* succeeds).
C16_PathListFilteredLikeTheWalk ==
    /\ \A i \in 1..Len(files_to_scan) :
          files_to_scan[i].stat_ok => WalkerSelects(files_to_scan[i])
    /\ (pc \in {"processing", "pass1"} /\ idx = 0 /\ path_list # <<>>) =>
          {f \in Range(files_to_scan) : f.stat_ok}
              = {f \in Range(path_list) : f.stat_ok /\ WalkerSelects(f)}

----------------------------------------------------------------------------
\* What is asked of the Pass 1 classification.  Scores are in half points: the
\* floor 1.0 is 2.

MaxScore2(rec) ==
    CHOOSE m \in Range(rec.scores2) : \A c \in DOMAIN rec.scores2 : rec.scores2[c] <= m

\* C17: every record has confidence >= 0; its category is misc exactly when the
\* maximum of its scores is below the floor 1.0, and then its confidence is 0;
\* a record that is not misc has the category of a maximum score, and that
\* score, at least 1.0, as its confidence.
C17_ClassifyFloorAndMaximum ==
    \A i \in 1..Len(cl_recs) :
        LET rec == cl_recs[i]
        IN  /\ rec.confidence2 >= 0
            /\ rec.category = "misc" <=> MaxScore2(rec) < 2
            /\ rec.category = "misc" => rec.confidence2 = 0
            /\ rec.category # "misc" =>
                  /\ rec.category \in DOMAIN rec.scores2
                  /\ rec.scores2[rec.category] = MaxScore2(rec)
                  /\ rec.confidence2 = MaxScore2(rec)
                  /\ rec.confidence2 >= 2

C17_Witness ==
    /\ Len(cl_recs) = 2
    /\ cl_recs[1].category = "misc"
    /\ MaxScore2(cl_recs[1]) = 1
    /\ cl_recs[1].confidence2 = 0
    /\ cl_recs[2].category = "misc"
    /\ MaxScore2(cl_recs[2]) = 0

\* C18: two calls with the same path and the same stat metadata return the same
\* record, whenever they are made.
C18_ClassifyIsPureInPathAndStat ==
    Len(cl_recs) = 2 => cl_recs[1] = cl_recs[2]

----------------------------------------------------------------------------
\* What is asked of the hand-over from Pass 1 to Pass 2.

\* A floor other than the default was asked for with --min-confidence.
FloorGiven == args.min_confidence2 # DefaultMinConfidence2

\* the file is of the subset the caller selected
Selected(f) ==
    LET a == Pass1Of(f, now)
    IN  /\ f.stat_ok
        /\ a.category \in Range(categories_to_process)
        /\ FloorGiven => a.confidence2 >= args.min_confidence2

\* C19: Pass 2 extracts and scores a file only if its Pass 1 category is one of
\* the selected categories and, with a confidence floor given, its Pass 1
\* confidence is at least the floor; no other file is extracted or has a row.
C19_Pass2TakesOnlySelectedFiles ==
    (driver = "twopass" /\ pc \in {"pass2", "done", "done_no_matches"}) =>
        /\ \A k \in 1..idx : Selected(files_to_scan[k])
        /\ \A i \in 1..Len(rows) :
              \E f \in Range(path_list) : f.path = rows[i].path /\ Selected(f)

\* pass1_categorized.json and pass1_summary.json are written, and the first
\* holds every bucket and, in the bucket of its category, every listed file
\* whose stat succeeds, and nothing else.
Pass1Persisted ==
    /\ {"pass1_categorized.json", "pass1_summary.json"} \subseteq outputs
    /\ DOMAIN pass1_json = DOMAIN NoBuckets
    /\ \A f \in Range(path_list) :
          f.stat_ok =>
              LET a == Pass1Of(f, now)
              IN  \E k \in 1..Len(pass1_json[a.category]) :
                     /\ pass1_json[a.category][k].path = f.path
                     /\ pass1_json[a.category][k].confidence2 = a.confidence2
    /\ \A c \in DOMAIN pass1_json :
          \A k \in 1..Len(pass1_json[c]) :
              /\ pass1_json[c][k].category = c
              /\ \E f \in Range(path_list) : f.stat_ok /\ f.path = pass1_json[c][k].path
              /\ \A j \in 1..Len(pass1_json[c]) :
                    pass1_json[c][j].path = pass1_json[c][k].path => j = k

\* Pass 2 has started, or the run has ended after Pass 1.
AfterPass1 ==
    \/ pc \in {"pass1_done", "pass2_start", "pass2", "done", "done_no_matches"}
    \/ pc = "failed" /\ enumerated
    \/ compiled # <<>>
    \/ idx > 0
    \/ rows # <<>>

\* Nothing of Pass 2 has happened.
NoPass2 ==
    /\ pc \notin {"pass2_start", "pass2", "done", "done_no_matches"}
    /\ compiled = <<>>
    /\ idx = 0
    /\ rows = <<>>
    /\ reported = <<>>
    /\ outputs \cap Reports = {}

\* C20: in the two-pass driver the whole Pass 1 classification, every bucket
\* included, is on disk before Pass 2 starts and whether or not Pass 2 runs;
\* with --pass1-only the step after the classification ends the run, nothing
\* follows it, no text is extracted and no evidence report is written.
C20_Pass1PersistedBeforeAndWithoutPass2 ==
    /\ [](driver = "twopass" =>
            /\ AfterPass1 => Pass1Persisted
            /\ pass1_only => NoPass2)
    /\ [][(driver = "twopass" /\ pass1_only /\ pc = "pass1")
              => (pc' = "pass1_done" /\ Pass1Persisted')]_vars
    /\ [][pc # "pass1_done"]_vars

\* a run with --pass1-only has ended with a file in a bucket that was not
\* selected for Pass 2
C20_Witness ==
    /\ driver = "twopass"
    /\ pass1_only
    /\ pc = "pass1_done"
    /\ Pass1Persisted
    /\ \E c \in DOMAIN pass1_json :
          c \notin Range(categories_to_process) /\ pass1_json[c] # <<>>

----------------------------------------------------------------------------
\* What is asked of the progress reporter.

\* C21: a progress artifact that cannot be written never fails the run: the
\* progress reporter returns normally to its caller, whether progress.json can
\* be written or not.
C21_ProgressWriteFailureNeverFailsTheRun ==
    (call_fn = "write_progress" /\ call_res # <<>>) => "raised" \notin DOMAIN call_res

\* write_progress has been called and has returned
ProgressCalled ==
    call_fn = "write_progress" /\ call_res # <<>> /\ "raised" \notin DOMAIN call_res

\* both counts are known and positive, and time has passed
EtaDue == call_args.total > 0 /\ call_args.n > 0 /\ call_args.elapsed > 0

\* (total - processed) / (processed / elapsed) in hundredths of a second, times
\* processed
ExtrapolatedTimesN == 100 * (call_args.total - call_args.n) * call_args.elapsed

\* C22 as it is stated: etaSec is null unless total and processed are positive
\* and time has passed; when set it equals
\* (total - processed) / (processed / elapsed), is never negative and is 0 when
\* processed equals total.
C22_EtaIsTheLinearExtrapolation ==
    ProgressCalled =>
        /\ call_res.eta_sec # None <=> EtaDue
        /\ call_res.eta_sec # None =>
              /\ call_res.eta_sec * call_args.n = ExtrapolatedTimesN
              /\ call_res.eta_sec >= 0
              /\ call_args.n = call_args.total => call_res.eta_sec = 0

\* C22 amended: etaSec is null unless total and processed are positive and time
\* has passed; when set it is (total - processed) / (processed / elapsed) rounded
\* to hundredths of a second (within half a hundredth of it), is never negative
\* and is 0 when processed equals total.
C22_EtaIsTheRoundedLinearExtrapolation ==
    ProgressCalled =>
        /\ call_res.eta_sec # None <=> EtaDue
        /\ call_res.eta_sec # None =>
              /\ 2 * (call_res.eta_sec * call_args.n - ExtrapolatedTimesN) <= call_args.n
              /\ 2 * (ExtrapolatedTimesN - call_res.eta_sec * call_args.n) <= call_args.n
              /\ call_res.eta_sec >= 0
              /\ call_args.n = call_args.total => call_res.eta_sec = 0

\* an ETA that is not a whole number of hundredths has been rounded
C22_Witness ==
    /\ ProgressCalled
    /\ EtaDue
    /\ call_res.eta_sec # None
    /\ call_res.eta_sec * call_args.n # ExtrapolatedTimesN

----------------------------------------------------------------------------
\* What is asked of the configuration loader.

ConfigCalled == call_fn = "load_rules_config" /\ call_res # <<>>

\* the suffix of the path, lowercased
ConfigSuffix == LowerStr(path_suffix(call_args.file.name))

\* the file can be read as text and the text is a document of its format
Parses == ~ call_args.file.is_dir /\ call_args.file.utf8 /\ call_args.file.well_formed

\* C23: the outcomes of load_rules_config, in this order: FileNotFoundError for
\* a path that does not exist; the parsed document for a .json suffix; for .yml
\* and .yaml ModuleNotFoundError without the YAML package and the parsed document
\* with it; UnsupportedConfigFormatError for every other suffix; the suffix is
\* compared without regard to case (a file that does not parse is left out of
\* the two "parsed document" outcomes).
C23_ConfigOutcomesBySuffix ==
    ConfigCalled =>
        IF ~ call_args.file.exists
        THEN call_res = Raised("FileNotFoundError")
        ELSE IF ConfigSuffix = <<".", "j", "s", "o", "n">>
             THEN Parses => call_res = Returned(DocumentOf(call_args.file))
        ELSE IF ConfigSuffix \in {<<".", "y", "m", "l">>, <<".", "y", "a", "m", "l">>}
             THEN IF ~ call_args.yaml_found
                  THEN call_res = Raised("ModuleNotFoundError")
                  ELSE Parses => call_res = Returned(DocumentOf(call_args.file))
        ELSE call_res = Raised("UnsupportedConfigFormatError")

----------------------------------------------------------------------------
\* What is asked of the provenance scorer.

EmailCalled == call_fn = "_score_email" /\ call_res # <<>>

\* the header a key stands for, names compared without regard to case
HeaderOf(key) ==
    LET k == LowerStr(key)
    IN  IF k = EMAIL_HEADER_PRECEDENCE[1].key THEN "From"
        ELSE IF k = EMAIL_HEADER_PRECEDENCE[2].key THEN "Sender"
        ELSE IF k = EMAIL_HEADER_PRECEDENCE[3].key \/ k \in Range(ReplyToAliases)
             THEN "Reply-To"
        ELSE "other"

\* some item of the mapping for this header holds a target address
ContainsTarget(header) ==
    \E i \in DOMAIN call_args.headers :
        /\ HeaderOf(call_args.headers[i].key) = header
        /\ \E j \in DOMAIN call_args.headers[i].value :
              /\ normalize_email(call_args.headers[i].value[j]) # <<>>
              /\ normalize_email(call_args.headers[i].value[j])
                     \in target_emails_of(call_args.target_emails)

\* C24: the match is attributed to the first of From, Sender, Reply-To that
\* contains a target address: the header named in the note contains one and no
\* header before it in the precedence does; names and addresses are compared
\* without regard to case and reply_to, replyto count as Reply-To.
C24_NoteNamesFirstMatchingHeader ==
    (EmailCalled /\ call_res.note # NoNote) =>
        /\ ContainsTarget(call_res.note.header)
        /\ call_res.note.header = "Sender" => ~ ContainsTarget("From")
        /\ call_res.note.header = "Reply-To" =>
              ~ ContainsTarget("From") /\ ~ ContainsTarget("Sender")

\* C25: the result is (email_score, a note) when some From, Sender or Reply-To
\* header contains a target address and (0.0, None) otherwise, whatever the
\* number of headers and addresses that match.
C25_ScoreAndNoteShapes ==
    EmailCalled =>
        IF ContainsTarget("From") \/ ContainsTarget("Sender") \/ ContainsTarget("Reply-To")
        THEN call_res.score = call_args.email_score /\ call_res.note # NoNote
        ELSE call_res = [score |-> 0, note |-> NoNote]

----------------------------------------------------------------------------
\* What is asked of the filename heuristics of Pass 1.

\* the word a filename pattern is written for: the pattern without the markers
\* of a word boundary around it
HeuristicWord(pat) == SubSeq(pat, 3, Len(pat) - 2)

WordChars ==
    {"a", "b", "c", "d", "e", "f", "g", "h", "i", "j", "k", "l", "m", "n", "o", "p", "q",
     "r", "s", "t", "u", "v", "w", "x", "y", "z", "0", "1", "2", "3", "4", "5", "6", "7",
     "8", "9", "_"}

\* word occurs in name (both lowercase) with no word character next to it
OccursAsWholeWord(word, name) ==
    \E pos \in 0..(Len(name) - Len(word)) :
        /\ \A k \in 1..Len(word) : name[pos + k] = word[k]
        /\ pos > 0 => name[pos] \notin WordChars
        /\ pos + Len(word) < Len(name) => name[pos + Len(word) + 1] \notin WordChars

\* the heuristic words of category c that occur as whole words in the basename
WordsInBasename(c) ==
    {i \in 1..Len(filename_patterns[c]) :
        OccursAsWholeWord(HeuristicWord(filename_patterns[c][i]),
                          LowerStr(basename(cl_file.path)))}

\* the points of a record for category c that are not for the filename, in half
\* points, read off its reasons
OtherPoints2(rec, c) ==
    6 * Cardinality({i \in 1..Len(path_patterns[c]) : <<"path", c, i>> \in Range(rec.reasons)})
    + (IF <<"ext", c, 0>> \in Range(rec.reasons) THEN 2 * extension_hints[c][rec.extension]
       ELSE 0)
    + (IF <<"recent_file">> \in Range(rec.reasons) THEN 1 ELSE 0)
    - (IF <<"tiny_file">> \in Range(rec.reasons) THEN 4 ELSE 0)
    - (IF <<"huge_file">> \in Range(rec.reasons) THEN 2 ELSE 0)

\* C26: every filename heuristic word of a category that occurs as a whole word
\* in the basename, case apart, adds 2 points to the score of the category and
\* one filename entry to the reasons (syllabus.pdf: 2 points for teaching).
C26_FilenameWordsAddTwoPoints ==
    \A k \in 1..Len(cl_recs) :
        \A c \in Range(Pass1Categories) :
            /\ {i \in 1..Len(filename_patterns[c]) :
                    <<"filename", c, i>> \in Range(cl_recs[k].reasons)} = WordsInBasename(c)
            /\ cl_recs[k].scores2[c]
                  = 4 * Cardinality(WordsInBasename(c)) + OtherPoints2(cl_recs[k], c)

----------------------------------------------------------------------------
\* What is asked of the sequence of progress snapshots of a single-pass run.

\* the snapshots of one stage, in the order they were written
StageSnapshots(stage) == SelectSeq(progress_log, LAMBDA p : p.stage = stage)

\* the snapshots of the stage count 0, 1, 2, ... up to n and none is above total
CountsUpTo(stage, n) ==
    LET snaps == StageSnapshots(stage)
    IN  /\ Len(snaps) = n + 1
        /\ \A k \in 1..Len(snaps) : snaps[k].processed = k - 1
        /\ \A k \in 1..Len(snaps) : snaps[k].processed <= snaps[k].total

\* C27: a single-pass run over a path list, with rules that load, has written
\* when it has ended one filtering snapshot for every listed path after the
\* opening snapshot of the stage, whatever became of the path; within a stage
\* processed grows by exactly 1 from snapshot to snapshot, is never above total,
\* and is total in the last snapshot of the stage.
C27_OneSnapshotPerCandidateFile ==
    /\ \A i \in 1..(Len(progress_log) - 1) :
          (progress_log[i].stage \in {"filtering", "processing"}
           /\ progress_log[i + 1].stage = progress_log[i].stage) =>
              /\ progress_log[i + 1].processed = progress_log[i].processed + 1
              /\ progress_log[i + 1].total = progress_log[i].total
    /\ (driver = "single" /\ RunEnded /\ RulesLoad /\ path_list # <<>>) =>
          /\ CountsUpTo("filtering", Len(path_list))
          /\ StageSnapshots("filtering")[Len(path_list) + 1].total = Len(path_list)
          /\ StageSnapshots("processing") # <<>>
          /\ LET last == StageSnapshots("processing")[Len(StageSnapshots("processing"))]
             IN  last.processed = last.total

----------------------------------------------------------------------------
\* The order of the stages of a run.

StageRank(stage) ==
    CASE stage = "indexing" -> 1
      [] stage \in {"filtering", "walking"} -> 2
      [] stage = "processing" -> 3
      [] stage \in {"done", "done_no_matches"} -> 4

StagesWritten == {progress_log[i].stage : i \in DOMAIN progress_log}

TerminalSnapshots ==
    {i \in DOMAIN progress_log : progress_log[i].stage \in {"done", "done_no_matches"}}

\* a file has been extracted or scored
ExtractionBegun == idx > 0 \/ rows # <<>>

\* every path of the list that Pass 1 could stat is in a bucket
AllClassified ==
    \A f \in Range(path_list) :
        f.stat_ok => \E c \in DOMAIN categorized :
                        \E k \in DOMAIN categorized[c] : categorized[c][k].path = f.path

\* in a two-pass run every path has been classified by Pass 1 before a file is
\* extracted
TwoPassClassifiesBeforeExtraction ==
    (driver = "twopass" /\ ExtractionBegun) =>
        /\ AllClassified
        /\ enumerated
        /\ pc \notin {"start", "load_paths", "pass1", "pass2_start"}

\* C28: the stages a single-pass run writes are indexing, then at most one of
\* filtering and walking, then processing, then exactly one of done and
\* done_no_matches, never backwards: a run with rules that load ends with the
\* stages indexing and processing written in this order and one terminal
\* snapshot, the last; no file is extracted or scored before the enumeration
\* is complete; in a two-pass run every path has been classified by Pass 1
\* before a file is extracted.
C28_StagesRunToCompletionInOrder ==
    /\ driver = "single" =>
          /\ \A i, j \in DOMAIN progress_log :
                i < j => StageRank(progress_log[i].stage)
                             <= StageRank(progress_log[j].stage)
          /\ ~ ({"filtering", "walking"} \subseteq StagesWritten)
          /\ ExtractionBegun => enumerated
          /\ (RunEnded /\ RulesLoad) =>
                /\ {"indexing", "processing"} \subseteq StagesWritten
                /\ progress_log[1].stage = "indexing"
                /\ TerminalSnapshots = {Len(progress_log)}
    /\ TwoPassClassifiesBeforeExtraction

----------------------------------------------------------------------------
\* The two drivers against each other.

BothDriversRan ==
    /\ call_fn = "drivers"
    /\ call_res.single.ran
    /\ call_res.twopass.ran

\* C29: on the same rule document and the same candidate file, with every
\* Pass 1 bucket selected, the two-pass driver produces the rows the single-pass
\* driver produces: the same path, category, subcategory, hits and score.
C29_TwoPassRowsAreSinglePassRows ==
    BothDriversRan => call_res.twopass = call_res.single

----------------------------------------------------------------------------
\* The scans of the desktop app.

\* the scans whose start_scan has set the flag: one per worker thread, and the
\* one whose thread start_scan is about to create
ScansStarted == Len(threads) + (IF ui = "start_scan_thread" THEN 1 ELSE 0)

\* worker t, which has not cleared anything yet, takes the first step of
\* _finish_scan (line 336) and clears the flag that a later start_scan has
\* set.  Its own scan was stopped: start_scan goes on only when the flag is
\* down, and worker t had not taken it down.
ClearsLaterScan(t) ==
    /\ threads[t].pc = "finish_scanning"
    /\ threads'[t].pc = "finish_process"
    /\ scanning
    /\ ScansStarted > t

\* at most one subprocess started by the app is alive
AtMostOneLiveScan == Cardinality(LiveProcesses) <= 1

\* while a subprocess is alive the scanning flag is true
LiveScanIsFlagged == LiveProcesses # {} => scanning

\* no worker of an earlier, stopped scan clears the flag of a later scan
NoWorkerClearsLaterScan == [][\A t \in DOMAIN threads : ~ ClearsLaterScan(t)]_vars

\* C30: under every interleaving of start_scan, stop_scan, the worker threads
\* and _finish_scan, at most one subprocess started by the app is alive, while
\* one is alive the scanning flag is true, and a worker thread of an earlier
\* scan never clears the state of a later scan.
C30_OneLiveScanAndItIsFlagged ==
    /\ [](AtMostOneLiveScan /\ LiveScanIsFlagged)
    /\ NoWorkerClearsLaterScan

====
